---- MODULE Spec2Model ----
(***************************************************************************)
(* A model of the Lambda runtime emulator (lambda-debugger), the proxy     *)
(* lambda and the two SQS queues that connect them.                        *)
(*                                                                         *)
(*   - the emulator's HTTP handlers (next_invocation, lambda_response,     *)
(*     lambda_error), each run in its own task, one per connection;        *)
(*   - the emulator's queue layer (get_input, send_output,                 *)
(*     compress_output);                                                   *)
(*   - the proxy lambda's my_handler (send, purge, poll, decode, delete);  *)
(*   - the local handlers (the developer's lambda processes) that drive    *)
(*     the Runtime API cycle, and the callers of the proxy lambda.         *)
(*                                                                         *)
(* Strings are records: `chars` holds the leading characters of a text,    *)
(* `pad` the number of further bytes the code never looks into, and `gz`   *)
(* the size of the gzip stream of the text.  `enc` marks the Base58 text   *)
(* of that gzip stream.                                                    *)
(***************************************************************************)
EXTENDS Integers, Sequences, FiniteSets, TLC

(* ------------------------------ bounds --------------------------------- *)
\* number of proxy-lambda invocations (each enqueues one request message)
MaxInvocations == 2
\* number of local handler processes that may connect to the emulator
MaxHandlers == 2
\* number of deliveries of request messages after which no visibility timeout
\* makes a message visible again
MaxDeliveries == 2

Proxies == 1..MaxInvocations
Handlers == 1..MaxHandlers

(* ------------------------------ strings -------------------------------- *)
Str(chars, pad, gz) == [enc |-> FALSE, chars |-> chars, pad |-> pad, gz |-> gz]
NoStr == Str(<<>>, 0, 0)

\* the Base58 alphabet of the bs58 crate (Bitcoin), restricted to the model's characters
Base58Chars == {"1", "p"}
Whitespace == {" "}

\* bs58::encode(..).into_string().len() for an input of n bytes (log 256 / log 58 = 1.37)
B58Len(n) == (n * 137) \div 100 + 1

\* String::len()
StrLen(s) == IF s.enc THEN B58Len(s.gz) ELSE Len(s.chars) + s.pad

RECURSIVE TrimStart(_)
\* str::trim_start()
TrimStart(chars) ==
    IF chars # <<>> /\ Head(chars) \in Whitespace THEN TrimStart(Tail(chars)) ELSE chars

\* the JSON documents among the short texts of the model: {}, "p", 1 and null
JsonTexts == { <<"{", "}">>, <<"\"", "p", "\"">>, <<"1">>, <<"n", "u", "l", "l">> }

\* serde_json accepts the text: a short document of JsonTexts with optional leading
\* whitespace, or a long document (pad > 0) that opens an object or a string
IsJson(s) ==
    /\ ~s.enc
    /\ \/ s.pad = 0 /\ TrimStart(s.chars) \in JsonTexts
       \/ s.pad > 0 /\ TrimStart(s.chars) # <<>> /\ Head(TrimStart(s.chars)) \in {"{", "\""}

Ok(v) == [ok |-> TRUE, val |-> v, err |-> ""]
Err(e) == [ok |-> FALSE, val |-> NoStr, err |-> e]

\* serde_json::to_string of a Value: a Value is kept as its compact text
ToJsonString(v) == v
\* Value::from_str / serde_json::from_str: the Value of a text, leading whitespace dropped
FromStr(s) == IF IsJson(s) THEN Ok([s EXCEPT !.chars = TrimStart(s.chars)]) ELSE Err("invalid JSON")

(* --------------------------- inputs ------------------------------------ *)
\* events the callers invoke the proxy lambda with (JSON Values): {} and "p" in turn
Events == << Str(<<"{", "}">>, 0, 20), Str(<<"\"", "p", "\"">>, 0, 20) >>
EventOf(p) == Events[(p % Len(Events)) + 1]

\* bodies the local handler POSTs: {} , "p" , a 300000-byte object that compresses
\* well, a 300000-byte object that does not, and a body that is not UTF-8
PostBodies ==
    { [utf8 |-> TRUE, str |-> Str(<<"{", "}">>, 0, 20)],
      [utf8 |-> TRUE, str |-> Str(<<"\"", "p", "\"">>, 0, 20)],
      [utf8 |-> TRUE, str |-> Str(<<"{">>, 299999, 1000)],
      [utf8 |-> TRUE, str |-> Str(<<"{">>, 299999, 250000)],
      [utf8 |-> FALSE, str |-> NoStr] }

\* the local handler under test: it answers an event with the event itself or with
\* a 300000-byte object, which compresses well for {} and does not for "p"; for {}
\* it may also answer with bytes that are not UTF-8
BodiesFor(event) ==
    IF event = Events[1]
    THEN { [utf8 |-> TRUE, str |-> event],
           [utf8 |-> TRUE, str |-> Str(<<"{">>, 299999, 1000)],
           [utf8 |-> FALSE, str |-> NoStr] }
    ELSE { [utf8 |-> TRUE, str |-> event],
           [utf8 |-> TRUE, str |-> Str(<<"{">>, 299999, 250000)] }

\* contents of the payload file of Local mode
PayloadFile == Str(<<"{", "}">>, 0, 20)

(* ------------------------ oversize-payload codec ----------------------- *)
\* variant: a response of exactly 262144 bytes is left as it is
compress_output_inclusive(response) ==
    IF StrLen(response) <= 262144
    THEN response
    ELSE [response EXCEPT !.enc = TRUE]

\* emulator: gzip + Base58 of a response that does not fit in an SQS message
compress_output(response) ==
    IF StrLen(response) < 262144
    THEN response
    ELSE [response EXCEPT !.enc = TRUE]

\* bs58::decode(&body).into_vec(): fails on a character outside the alphabet
Base58DecodeOk(body) ==
    \/ body.enc
    \/ body.pad = 0 /\ \A i \in 1..Len(body.chars) : body.chars[i] \in Base58Chars

\* GzDecoder::read_to_end on the decoded bytes: only the bytes of a gzip stream
\* decompress; the bytes decoded from a plain text are no gzip stream
GzDecodeOk(body) == body.enc

\* variant: the Base58 text is decoded and its bytes are not decompressed
decode_maybe_binary_no_gunzip(body) ==
    IF StrLen(body) = 0
       \/ (~body.enc /\ TrimStart(body.chars) # <<>> /\ Head(TrimStart(body.chars)) = "{")
    THEN Ok(body)
    ELSE IF ~Base58DecodeOk(body) THEN Err("Failed to decode from maybe base58")
    ELSE Ok(body)

\* proxy lambda: the inverse of compress_output
decode_maybe_binary(body) ==
    IF StrLen(body) = 0
       \/ (~body.enc /\ TrimStart(body.chars) # <<>> /\ Head(TrimStart(body.chars)) = "{")
    THEN Ok(body)
    ELSE IF ~Base58DecodeOk(body) THEN Err("Failed to decode from maybe base58")
    ELSE IF ~GzDecodeOk(body) THEN Err("Failed to decompress the payload")
    ELSE Ok([body EXCEPT !.enc = FALSE])

(* ------------------------------- state --------------------------------- *)
VARIABLES
    sources,                \* Config.sources, fixed at startup: "Local", "Remote" (both
                            \* queues) or "RemoteNoResponseQueue" (response_queue_url is None)
    BLOCK_NEXT_INVOCATION,  \* the rerun guard
    panicked,               \* a panic has ended the emulator process
    reqQ,                   \* request queue: message of invocation p -> [st, rc, event]
    respQ,                  \* response queue: set of messages [id, body, st]
    proxy,                  \* proxy-lambda invocation p -> [pc, batch, handle, body, result]
    hs,                     \* local handler h and the emulator task serving its request
    inflight,               \* receipt handles received by get_input and not yet answered
    lastTerminal,           \* the most recent completed /response or /error handler
    lastGuardEvent,         \* the most recent of: a completed /error, a park
    codec,                  \* a text on its way through compress_output and decode_maybe_binary
    startup                 \* Config::from_env: its inputs, its position and the queue URLs

vars == <<sources, BLOCK_NEXT_INVOCATION, panicked, reqQ, respQ, proxy, hs,
          inflight, lastTerminal, lastGuardEvent, codec, startup>>

LOCAL_REQUEST_ID == [id |-> "local-request-id", msg |-> 0, n |-> 0]
\* the receipt handle SQS issues for the n-th delivery of request message msg
Receipt(msg, n) == [id |-> "receipt", msg |-> msg, n |-> n]
NoId == [id |-> "", msg |-> 0, n |-> 0]

\* an HTTP response as the local handler sees it
\* (invoked_function_arn and trace_id are the headers lambda-runtime-invoked-function-arn
\* and lambda-runtime-trace-id, which only the answer to /next carries)
NoResponse == [from |-> "", status |-> 0, request_id |-> NoId, body |-> NoStr,
               invoked_function_arn |-> "", trace_id |-> ""]
HttpResponse(from, status, request_id, body) ==
    [from |-> from, status |-> status, request_id |-> request_id, body |-> body,
     invoked_function_arn |-> "", trace_id |-> ""]

\* a /response request in send_output: its arguments and the SQS calls it has made;
\* the receipt handle and the calls are kept when the request is done
NoOut == [receipt_handle |-> NoId, sqs_payload |-> NoStr, response |-> NoStr, calls |-> <<>>]
SqsCall(api, queue, receipt_handle) == [api |-> api, queue |-> queue, receipt_handle |-> receipt_handle]

\* The first handler runs the Runtime API cycle for ever; a further handler process
\* runs one request and its answer, and stops.
Rest(h) == IF h = 1 THEN "idle" ELSE "stopped"

\* no text is in the codec
NoCodec == [pc |-> "none", input |-> NoStr, encoded |-> NoStr, decoded |-> Err("")]

\* an Option that is None
None == "None"

\* Config::from_env is through
NoStartup ==
    [pc |-> "done", payload_file |-> None,
     env |-> [PROXY_LAMBDA_REQ_QUEUE_URL |-> None, PROXY_LAMBDA_RESP_QUEUE_URL |-> None,
              LAMBDA_PROXY_RESP_QUEUE_URL |-> None],
     default_queues |-> [req |-> None, resp |-> None],
     listed |-> FALSE, request_queue_url |-> None, response_queue_url |-> None]

\* purge_response_queue has not returned
NotReturned == Err("not returned")

\* an invocation of the proxy lambda that has not begun: its ARN has the seven
\* parts of a function ARN and PROXY_LAMBDA_REQ_QUEUE_URL is set
NoInvocation ==
    [pc |-> "idle", event |-> NoStr, batch |-> {}, handle |-> NoId, body |-> NoStr,
     result |-> Err(""), arn |-> 7, PROXY_LAMBDA_REQ_QUEUE_URL |-> TRUE, purged |-> NotReturned]

\* the emulator, the queues and the proxy lambda at startup
StartState ==
    /\ BLOCK_NEXT_INVOCATION = FALSE
    /\ panicked = FALSE
    /\ reqQ = [p \in Proxies |-> [st |-> "none", rc |-> 0, event |-> NoStr, lacks |-> {}]]
    /\ respQ = {}
    /\ proxy = [p \in Proxies |-> NoInvocation]
    /\ hs = [h \in Handlers |-> [pc |-> IF h = 1 THEN "idle" ELSE "off",
                                 resp |-> NoResponse, out |-> NoOut]]
    /\ inflight = {}
    /\ lastTerminal = "none"
    /\ lastGuardEvent = "start"

Init ==
    /\ sources \in {"Local", "Remote"}
    /\ StartState
    /\ codec = NoCodec
    /\ startup = NoStartup

(* ------------------------------- SQS ----------------------------------- *)
\* variant: a delivery gets the receipt handle of the delivery before
ReceiveRequest_same_handle(q, p) ==
    [q EXCEPT ![p].st = "hidden", ![p].rc = IF q[p].rc = 0 THEN 1 ELSE q[p].rc]

\* ReceiveMessage hides the message and issues the receipt handle of this delivery
ReceiveRequest(q, p) == [q EXCEPT ![p].st = "hidden", ![p].rc = q[p].rc + 1]

\* DeleteMessage fails on a receipt handle SQS never issued
DeleteRequestOk(q, rh) ==
    rh.id = "receipt" /\ rh.msg \in Proxies /\ rh.n >= 1 /\ rh.n <= q[rh.msg].rc

\* variant: the message is made visible again
DeleteRequest_release(q, rh) == [q EXCEPT ![rh.msg].st = "visible"]

DeleteRequest(q, rh) == [q EXCEPT ![rh.msg].st = "deleted"]

RECURSIVE SumRc(_, _)
SumRc(q, n) == IF n = 0 THEN 0 ELSE q[n].rc + SumRc(q, n - 1)
\* the number of deliveries so far
Deliveries(q) == SumRc(q, MaxInvocations)

\* the visibility timeout of a received request message expires
VisibilityTimeout(p) ==
    /\ reqQ[p].st = "hidden"
    /\ Deliveries(reqQ) < MaxDeliveries
    /\ reqQ' = [reqQ EXCEPT ![p].st = "visible"]
    /\ UNCHANGED <<startup, codec, sources, BLOCK_NEXT_INVOCATION, panicked, respQ, proxy, hs,
                   inflight, lastTerminal, lastGuardEvent>>

Visible(q) == {m \in q : m.st = "visible"}

(* ------------------------- emulator: HTTP router ----------------------- *)
\* the request paths of the Runtime API
NextPath == [prefix |-> "/runtime/invocation", id |-> NoId, tail |-> "/next"]
ResponsePath(id) == [prefix |-> "/runtime/invocation", id |-> id, tail |-> "/response"]
ErrorPath(id) == [prefix |-> "/runtime/invocation", id |-> id, tail |-> "/error"]
InitErrorPath == [prefix |-> "/runtime/init", id |-> NoId, tail |-> "/error"]
\* a path that is not of the Runtime API
OtherPath == [prefix |-> "/extension", id |-> NoId, tail |-> "/register"]

\* variant: /error is served for an invocation only
lambda_api_handler_invocation_error_only(method, path) ==
    IF method = "GET" /\ path.prefix = "/runtime/invocation" /\ path.tail = "/next"
    THEN "next_invocation"
    ELSE IF method # "POST" THEN "panic"
    ELSE IF path.tail = "/response" THEN "lambda_response"
    ELSE IF path.tail = "/error" /\ path.prefix = "/runtime/invocation" THEN "lambda_error"
    ELSE "panic"

\* the handler lambda_api_handler passes a request to
lambda_api_handler(method, path) ==
    IF method = "GET" /\ path.prefix = "/runtime/invocation" /\ path.tail = "/next"
    THEN "next_invocation"
    ELSE IF method # "POST" THEN "panic"
    ELSE IF path.tail = "/response" THEN "lambda_response"
    ELSE IF path.tail = "/error" THEN "lambda_error"
    ELSE "lambda_error"

(* ----------------------- emulator: next_invocation --------------------- *)
\* the trace id sent when there is none
PlaceholderTraceId ==
    "Root=0-00000000-000000000000000000000000;Parent=0000000000000000;Sampled=0;Lineage=00000000:0"

\* variant: the ARN header of Local mode is left out
LocalNextResponse_no_arn(payload) ==
    [HttpResponse("next", 200, LOCAL_REQUEST_ID, payload) EXCEPT !.trace_id = PlaceholderTraceId]

\* the 200 response of Local mode
LocalNextResponse(payload) ==
    [HttpResponse("next", 200, LOCAL_REQUEST_ID, payload)
        EXCEPT !.invoked_function_arn = "from-local-payload", !.trace_id = PlaceholderTraceId]

\* variant: the request id is the one of the proxy lambda's context
RemoteNextResponse_ctx_request_id(sqs_message) ==
    [HttpResponse("next", 200, sqs_message.ctx.request_id, sqs_message.payload)
        EXCEPT !.invoked_function_arn = sqs_message.ctx.invoked_function_arn,
               !.trace_id = IF sqs_message.ctx.xray_trace_id = None THEN PlaceholderTraceId
                            ELSE sqs_message.ctx.xray_trace_id]

\* the 200 response built from the SqsMessage get_input returned
RemoteNextResponse(sqs_message) ==
    [HttpResponse("next", 200, sqs_message.receipt_handle, sqs_message.payload)
        EXCEPT !.invoked_function_arn = sqs_message.ctx.invoked_function_arn,
               !.trace_id = IF sqs_message.ctx.xray_trace_id = None THEN PlaceholderTraceId
                            ELSE sqs_message.ctx.xray_trace_id]

\* variant: the guard blocks a request in Local mode only
next_invocation_block_local_only(h) ==
    LET block == BLOCK_NEXT_INVOCATION /\ sources = "Local" IN
    /\ hs' = [hs EXCEPT ![h] =
                IF block THEN [@ EXCEPT !.pc = "next_unblock", !.resp = NoResponse, !.out = NoOut]
                ELSE IF sources = "Local"
                     THEN [@ EXCEPT !.pc = "invoked", !.resp = LocalNextResponse(PayloadFile),
                                    !.out = NoOut]
                     ELSE [@ EXCEPT !.pc = "get_input", !.resp = NoResponse, !.out = NoOut]]
    /\ UNCHANGED <<startup, codec, sources, BLOCK_NEXT_INVOCATION, panicked, reqQ, respQ, proxy,
                   inflight, lastTerminal, lastGuardEvent>>

\* block_if_rerun reads the guard; a request that is not blocked goes on to the
\* payload source: the file in Local mode, get_input in Remote mode
next_invocation(h) ==
    LET block == BLOCK_NEXT_INVOCATION IN
    /\ hs' = [hs EXCEPT ![h] =
                IF block THEN [@ EXCEPT !.pc = "next_unblock", !.resp = NoResponse, !.out = NoOut]
                ELSE IF sources = "Local"
                     THEN [@ EXCEPT !.pc = "invoked", !.resp = LocalNextResponse(PayloadFile),
                                    !.out = NoOut]
                     ELSE [@ EXCEPT !.pc = "get_input", !.resp = NoResponse, !.out = NoOut]]
    /\ UNCHANGED <<startup, codec, sources, BLOCK_NEXT_INVOCATION, panicked, reqQ, respQ, proxy,
                   inflight, lastTerminal, lastGuardEvent>>

\* variant: the guard is left set
block_if_rerun_unblock_keeps_guard(h) ==
    /\ ~panicked
    /\ hs[h].pc = "next_unblock"
    /\ lastGuardEvent' = "park"
    /\ hs' = [hs EXCEPT ![h].pc = "parked"]
    /\ UNCHANGED <<startup, codec, sources, BLOCK_NEXT_INVOCATION, panicked, reqQ, respQ, proxy,
                   inflight, lastTerminal>>

\* block_if_rerun after it read the guard set: clear it, then sleep for a year
block_if_rerun_unblock(h) ==
    /\ ~panicked
    /\ hs[h].pc = "next_unblock"
    /\ BLOCK_NEXT_INVOCATION' = FALSE
    /\ lastGuardEvent' = "park"
    /\ hs' = [hs EXCEPT ![h].pc = "parked"]
    /\ UNCHANGED <<startup, codec, sources, panicked, reqQ, respQ, proxy, inflight, lastTerminal>>

\* the SqsMessage get_input builds from request message p: the event serialised
\* again, the receipt handle of this delivery and the context
SqsMessage(q, p) ==
    [payload |-> ToJsonString(FromStr(q[p].event).val),
     receipt_handle |-> Receipt(p, q[p].rc),
     ctx |-> [request_id |-> [id |-> "lambda-request-id", msg |-> p, n |-> 0],
              invoked_function_arn |-> "arn:aws:lambda:us-east-1:512295225992:function:lambda-debug-proxy",
              xray_trace_id |-> IF p % 2 = 1 THEN None ELSE "Root=1-6667af77"]]

\* a message get_input takes: Some(body), Some(receipt_handle), and a body that
\* deserialises
ValidMessage(msg) == msg.lacks = {} /\ FromStr(msg.event).ok

\* variant: ReceiveMessage takes every visible message and the first is returned
get_input_batch(h) ==
    /\ ~panicked
    /\ hs[h].pc = "get_input"
    /\ \E p \in Proxies :
        /\ reqQ[p].st = "visible"
        /\ reqQ' = [q \in Proxies |-> IF reqQ[q].st = "visible"
                                      THEN ReceiveRequest(reqQ, q)[q] ELSE reqQ[q]]
        /\ LET sqs_message == SqsMessage(reqQ', p) IN
            /\ hs' = [hs EXCEPT ![h].pc = "invoked", ![h].resp = RemoteNextResponse(sqs_message)]
            /\ inflight' = inflight \cup {Receipt(q, reqQ'[q].rc) : q \in {r \in Proxies : reqQ[r].st = "visible"}}
    /\ UNCHANGED <<startup, codec, sources, BLOCK_NEXT_INVOCATION, panicked, respQ, proxy, lastTerminal, lastGuardEvent>>

\* get_input: a ReceiveMessage on the request queue returns a message; an empty
\* answer repeats the call and changes nothing
get_input(h) ==
    /\ ~panicked
    /\ hs[h].pc = "get_input"
    /\ \E p \in Proxies :
        /\ reqQ[p].st = "visible"
        /\ ValidMessage(reqQ[p])
        /\ reqQ' = ReceiveRequest(reqQ, p)
        /\ LET sqs_message == SqsMessage(reqQ', p) IN
            /\ hs' = [hs EXCEPT ![h].pc = "invoked", ![h].resp = RemoteNextResponse(sqs_message)]
            /\ inflight' = inflight \cup {sqs_message.receipt_handle}
    /\ UNCHANGED <<startup, codec, sources, BLOCK_NEXT_INVOCATION, panicked, respQ, proxy, lastTerminal, lastGuardEvent>>

\* get_input received a message without a body or a receipt handle, or with a body
\* that does not deserialise: a panic, with the message received and not deleted
get_input_invalid(h) ==
    /\ ~panicked
    /\ hs[h].pc = "get_input"
    /\ \E p \in Proxies :
        /\ reqQ[p].st = "visible"
        /\ ~ValidMessage(reqQ[p])
        /\ reqQ' = ReceiveRequest(reqQ, p)
    /\ panicked' \in BOOLEAN
    /\ hs' = [hs EXCEPT ![h].pc = "failed", ![h].resp = NoResponse]
    /\ UNCHANGED <<startup, codec, sources, BLOCK_NEXT_INVOCATION, respQ, proxy,
                   inflight, lastTerminal, lastGuardEvent>>

\* variant: a ReceiveMessage that failed ends the handler
get_input_error_fails(h) ==
    /\ ~panicked
    /\ hs[h].pc = "get_input"
    /\ hs' = [hs EXCEPT ![h].pc = "failed"]
    /\ UNCHANGED <<startup, codec, sources, BLOCK_NEXT_INVOCATION, panicked, reqQ, respQ, proxy,
                   inflight, lastTerminal, lastGuardEvent>>

\* get_input: the ReceiveMessage failed; the error is logged and the loop sleeps
get_input_error(h) ==
    /\ ~panicked
    /\ hs[h].pc = "get_input"
    /\ hs' = [hs EXCEPT ![h].pc = "get_input_sleep"]
    /\ UNCHANGED <<startup, codec, sources, BLOCK_NEXT_INVOCATION, panicked, reqQ, respQ, proxy,
                   inflight, lastTerminal, lastGuardEvent>>

\* get_input: the 5000 ms are over and the loop goes on to the next ReceiveMessage
get_input_sleep(h) ==
    /\ ~panicked
    /\ hs[h].pc = "get_input_sleep"
    /\ hs' = [hs EXCEPT ![h].pc = "get_input"]
    /\ UNCHANGED <<startup, codec, sources, BLOCK_NEXT_INVOCATION, panicked, reqQ, respQ, proxy,
                   inflight, lastTerminal, lastGuardEvent>>

\* the runs of Config::from_env so far: one of main, one at the top of each call
\* of get_input (the calls that returned a message and the calls still receiving)
\* and one at the top of each call of send_output that is under way; get_input and
\* send_output initialise a OnceCell of their own on every call
from_env_runs ==
    1 + Deliveries(reqQ)
      + Cardinality({h \in Handlers : hs[h].pc \in {"get_input", "get_input_sleep"}})
      + Cardinality({h \in Handlers : hs[h].pc \in {"send_output", "send_output_delete"}})

(* ----------------------- emulator: lambda_error ------------------------ *)
\* variant: the guard is not written
lambda_error_no_guard(h, path, body) ==
    /\ hs' = [hs EXCEPT ![h].pc = Rest(h),
                        ![h].resp = HttpResponse("error", 500, NoId, NoStr)]
    /\ inflight' = inflight \ {path.id}
    /\ lastTerminal' = "error"
    /\ lastGuardEvent' = "error"
    /\ UNCHANGED <<startup, codec, sources, BLOCK_NEXT_INVOCATION, panicked, reqQ, respQ, proxy>>

\* /error and /init/error: log the body, set the guard, answer 500 with an empty body
lambda_error(h, path, body) ==
    /\ BLOCK_NEXT_INVOCATION' = TRUE
    /\ hs' = [hs EXCEPT ![h].pc = Rest(h),
                        ![h].resp = HttpResponse("error", 500, NoId, NoStr)]
    /\ inflight' = inflight \ {path.id}
    /\ lastTerminal' = "error"
    /\ lastGuardEvent' = "error"
    /\ UNCHANGED <<startup, codec, sources, panicked, reqQ, respQ, proxy>>

(* ---------------------- emulator: lambda_response ---------------------- *)
\* a panic of the handler: the task serving the connection is gone, and with it
\* the process when the build aborts on a panic
Panic(h) ==
    /\ panicked' \in BOOLEAN
    /\ hs' = [hs EXCEPT ![h].pc = "failed", ![h].resp = NoResponse]
    /\ UNCHANGED <<startup, codec, sources, BLOCK_NEXT_INVOCATION, reqQ, respQ, proxy,
                   inflight, lastTerminal, lastGuardEvent>>

\* variant: a response clears the guard
lambda_response_clears_guard(h, path, body) ==
    LET receipt_handle == path.id
        sqs_payload == body.str
    IN
    IF ~body.utf8 THEN Panic(h)
    ELSE /\ hs' = [hs EXCEPT ![h].pc = "send_output", ![h].resp = NoResponse,
                             ![h].out = [receipt_handle |-> receipt_handle,
                                         sqs_payload |-> sqs_payload,
                                         response |-> compress_output(sqs_payload),
                                         calls |-> <<>>]]
         /\ BLOCK_NEXT_INVOCATION' = FALSE
         /\ UNCHANGED <<startup, codec, sources, panicked, reqQ, respQ, proxy,
                        inflight, lastTerminal, lastGuardEvent>>

\* the receipt handle is the {id} of the path; a body that is not UTF-8 is a panic;
\* send_output starts by compressing the response
lambda_response(h, path, body) ==
    LET receipt_handle == path.id
        sqs_payload == body.str
    IN
    IF ~body.utf8 THEN Panic(h)
    ELSE /\ hs' = [hs EXCEPT ![h].pc = "send_output", ![h].resp = NoResponse,
                             ![h].out = [receipt_handle |-> receipt_handle,
                                         sqs_payload |-> sqs_payload,
                                         response |-> compress_output(sqs_payload),
                                         calls |-> <<>>]]
         /\ UNCHANGED <<startup, codec, sources, BLOCK_NEXT_INVOCATION, panicked, reqQ, respQ, proxy,
                        inflight, lastTerminal, lastGuardEvent>>

\* variant: every response is taken to fit
FitsSqs_always(response) == TRUE

\* SQS takes a message body shorter than 262144 bytes
FitsSqs(response) == StrLen(response) < 262144

\* variant: the length tested is the one of the response before compression
send_output_send_raw_len(h) ==
    LET response == hs[h].out.response
        receipt_handle == hs[h].out.receipt_handle
    IN
    /\ ~panicked
    /\ hs[h].pc = "send_output"
    /\ \/ /\ IF StrLen(hs[h].out.sqs_payload) < 262144
             THEN /\ respQ' = respQ \cup {[id |-> receipt_handle, body |-> response, st |-> "visible"]}
                  /\ hs' = [hs EXCEPT ![h].pc = "send_output_delete",
                                      ![h].out.calls = Append(@, SqsCall("SendMessage", "response", receipt_handle))]
             ELSE /\ hs' = [hs EXCEPT ![h].pc = "send_output_delete"]
                  /\ UNCHANGED respQ
          /\ UNCHANGED panicked
       \/ /\ sources = "Local"
          /\ panicked' \in BOOLEAN
          /\ hs' = [hs EXCEPT ![h].pc = "failed"]
          /\ UNCHANGED respQ
    /\ UNCHANGED <<startup, codec, sources, BLOCK_NEXT_INVOCATION, reqQ, proxy, inflight, lastTerminal, lastGuardEvent>>

\* send_output, first half: the configuration is read from the environment, which
\* panics when the queues are not set (they need not be with a local payload);
\* then SendMessage to the response queue unless the (compressed) response is too
\* long for SQS
send_output_send(h) ==
    LET response == hs[h].out.response
        receipt_handle == hs[h].out.receipt_handle
    IN
    /\ ~panicked
    /\ hs[h].pc = "send_output"
    /\ \/ /\ IF FitsSqs(response)
             THEN /\ respQ' = respQ \cup {[id |-> receipt_handle, body |-> response, st |-> "visible"]}
                  /\ hs' = [hs EXCEPT ![h].pc = "send_output_delete",
                                      ![h].out.calls = Append(@, SqsCall("SendMessage", "response", receipt_handle))]
             ELSE /\ hs' = [hs EXCEPT ![h].pc = "send_output_delete"]
                  /\ UNCHANGED respQ
          /\ UNCHANGED panicked
       \/ /\ sources = "Local"
          /\ panicked' \in BOOLEAN
          /\ hs' = [hs EXCEPT ![h].pc = "failed"]
          /\ UNCHANGED respQ
    /\ UNCHANGED <<startup, codec, sources, BLOCK_NEXT_INVOCATION, reqQ, proxy, inflight, lastTerminal, lastGuardEvent>>

\* variant: a response that was too long to send leaves the request in the queue
send_output_delete_if_sent(h) ==
    LET receipt_handle == hs[h].out.receipt_handle
        calls == Append(hs[h].out.calls, SqsCall("DeleteMessage", "request", receipt_handle))
    IN
    /\ ~panicked
    /\ hs[h].pc = "send_output_delete"
    /\ IF hs[h].out.calls = <<>>
       THEN /\ hs' = [hs EXCEPT ![h].pc = Rest(h),
                                ![h].out = [NoOut EXCEPT !.receipt_handle = receipt_handle],
                                ![h].resp = HttpResponse("response", 200, NoId, NoStr)]
            /\ inflight' = inflight \ {receipt_handle}
            /\ lastTerminal' = "response"
            /\ UNCHANGED <<reqQ, panicked>>
       ELSE IF DeleteRequestOk(reqQ, receipt_handle)
       THEN /\ reqQ' = DeleteRequest(reqQ, receipt_handle)
            /\ hs' = [hs EXCEPT ![h].pc = Rest(h),
                                ![h].out = [NoOut EXCEPT !.receipt_handle = receipt_handle,
                                                         !.calls = calls],
                                ![h].resp = HttpResponse("response", 200, NoId, NoStr)]
            /\ inflight' = inflight \ {receipt_handle}
            /\ lastTerminal' = "response"
            /\ UNCHANGED panicked
       ELSE /\ panicked' \in BOOLEAN
            /\ hs' = [hs EXCEPT ![h].pc = "failed", ![h].out.calls = calls]
            /\ UNCHANGED <<reqQ, inflight, lastTerminal>>
    /\ UNCHANGED <<startup, codec, sources, BLOCK_NEXT_INVOCATION, respQ, proxy, lastGuardEvent>>

\* send_output, second half: DeleteMessage of the request; then the handler returns 200
send_output_delete(h) ==
    LET receipt_handle == hs[h].out.receipt_handle
        calls == Append(hs[h].out.calls, SqsCall("DeleteMessage", "request", receipt_handle))
    IN
    /\ ~panicked
    /\ hs[h].pc = "send_output_delete"
    /\ IF DeleteRequestOk(reqQ, receipt_handle)
       THEN /\ reqQ' = DeleteRequest(reqQ, receipt_handle)
            /\ hs' = [hs EXCEPT ![h].pc = Rest(h),
                                ![h].out = [NoOut EXCEPT !.receipt_handle = receipt_handle,
                                                         !.calls = calls],
                                ![h].resp = HttpResponse("response", 200, NoId, NoStr)]
            /\ inflight' = inflight \ {receipt_handle}
            /\ lastTerminal' = "response"
            /\ UNCHANGED panicked
       ELSE /\ panicked' \in BOOLEAN
            /\ hs' = [hs EXCEPT ![h].pc = "failed", ![h].out.calls = calls]
            /\ UNCHANGED <<reqQ, inflight, lastTerminal>>
    /\ UNCHANGED <<startup, codec, sources, BLOCK_NEXT_INVOCATION, respQ, proxy, lastGuardEvent>>

\* send_output: the SendMessage to the response queue failed, a panic before the
\* DeleteMessage
send_output_send_failed(h) ==
    /\ ~panicked
    /\ hs[h].pc = "send_output"
    /\ sources # "Local"
    /\ FitsSqs(hs[h].out.response)
    /\ panicked' \in BOOLEAN
    /\ hs' = [hs EXCEPT ![h].pc = "failed",
                        ![h].out.calls = Append(@, SqsCall("SendMessage", "response",
                                                           hs[h].out.receipt_handle))]
    /\ UNCHANGED <<startup, codec, sources, BLOCK_NEXT_INVOCATION, reqQ, respQ, proxy,
                   inflight, lastTerminal, lastGuardEvent>>

\* send_output: the DeleteMessage of the request failed, a panic
send_output_delete_failed(h) ==
    /\ ~panicked
    /\ hs[h].pc = "send_output_delete"
    /\ sources # "Local"
    /\ panicked' \in BOOLEAN
    /\ hs' = [hs EXCEPT ![h].pc = "failed",
                        ![h].out.calls = Append(@, SqsCall("DeleteMessage", "request",
                                                           hs[h].out.receipt_handle))]
    /\ UNCHANGED <<startup, codec, sources, BLOCK_NEXT_INVOCATION, reqQ, respQ, proxy,
                   inflight, lastTerminal, lastGuardEvent>>

\* variant: the response is sent to the default response queue
send_output_dropped_sends(h) ==
    LET receipt_handle == hs[h].out.receipt_handle IN
    /\ ~panicked
    /\ hs[h].pc = "send_output"
    /\ sources = "RemoteNoResponseQueue"
    /\ respQ' = respQ \cup {[id |-> receipt_handle, body |-> hs[h].out.response, st |-> "visible"]}
    /\ hs' = [hs EXCEPT ![h].pc = Rest(h),
                        ![h].out = [NoOut EXCEPT !.receipt_handle = receipt_handle,
                                                 !.calls = <<SqsCall("SendMessage", "response", receipt_handle)>>],
                        ![h].resp = HttpResponse("response", 200, NoId, NoStr)]
    /\ inflight' = inflight \ {receipt_handle}
    /\ lastTerminal' = "response"
    /\ UNCHANGED <<startup, codec, sources, BLOCK_NEXT_INVOCATION, panicked, reqQ, proxy, lastGuardEvent>>

\* send_output with no response queue configured: the response is dropped with a
\* log line and send_output returns; then the handler returns 200
send_output_dropped(h) ==
    LET receipt_handle == hs[h].out.receipt_handle IN
    /\ ~panicked
    /\ hs[h].pc = "send_output"
    /\ sources = "RemoteNoResponseQueue"
    /\ hs' = [hs EXCEPT ![h].pc = Rest(h),
                        ![h].out = [NoOut EXCEPT !.receipt_handle = receipt_handle],
                        ![h].resp = HttpResponse("response", 200, NoId, NoStr)]
    /\ inflight' = inflight \ {receipt_handle}
    /\ lastTerminal' = "response"
    /\ UNCHANGED <<startup, codec, sources, BLOCK_NEXT_INVOCATION, panicked, reqQ, respQ, proxy, lastGuardEvent>>

(* ------------------------- the local handlers -------------------------- *)
\* variant: a POST is served on the paths of the Runtime API only
Serve_known_paths(h, method, path, body) ==
    LET handler == IF method = "POST" /\ path.prefix \notin {"/runtime/invocation", "/runtime/init"}
                   THEN "panic"
                   ELSE lambda_api_handler(method, path) IN
    /\ ~panicked
    /\ CASE handler = "next_invocation" -> next_invocation(h)
         [] handler = "lambda_response" -> lambda_response(h, path, body)
         [] handler = "lambda_error" -> lambda_error(h, path, body)
         [] OTHER -> Panic(h)

\* the emulator serves one HTTP request of handler h
Serve(h, method, path, body) ==
    LET handler == lambda_api_handler(method, path) IN
    /\ ~panicked
    /\ CASE handler = "next_invocation" -> next_invocation(h)
         [] handler = "lambda_response" -> lambda_response(h, path, body)
         [] handler = "lambda_error" -> lambda_error(h, path, body)
         [] OTHER -> Panic(h)

NoBody == [utf8 |-> TRUE, str |-> NoStr]

\* variant: a connection is accepted when no request is waiting in next_invocation
StartHandler_serial(h) ==
    /\ hs[h].pc = "off"
    /\ \A g \in Handlers : g < h => hs[g].pc # "off"
    /\ \A g \in Handlers : (1 < g /\ g < h) => hs[g].pc \in {"stopped", "failed", "parked"}
    /\ \A g \in Handlers : hs[g].pc \notin {"next_unblock", "parked", "get_input"}
    /\ hs' = [hs EXCEPT ![h].pc = "idle"]
    /\ UNCHANGED <<startup, codec, sources, BLOCK_NEXT_INVOCATION, panicked, reqQ, respQ, proxy,
                   inflight, lastTerminal, lastGuardEvent>>

\* a further handler process is started against the same emulator, next to the
\* first one; a further process starts when the one before it is through
StartHandler(h) ==
    /\ hs[h].pc = "off"
    /\ \A g \in Handlers : g < h => hs[g].pc # "off"
    /\ \A g \in Handlers : (1 < g /\ g < h) => hs[g].pc \in {"stopped", "failed", "parked"}
    /\ hs' = [hs EXCEPT ![h].pc = "idle"]
    /\ UNCHANGED <<startup, codec, sources, BLOCK_NEXT_INVOCATION, panicked, reqQ, respQ, proxy,
                   inflight, lastTerminal, lastGuardEvent>>

\* the developer restarts a handler whose request is parked
RestartHandler(h) ==
    /\ hs[h].pc = "parked"
    /\ hs' = [hs EXCEPT ![h].pc = Rest(h), ![h].resp = NoResponse]
    /\ UNCHANGED <<startup, codec, sources, BLOCK_NEXT_INVOCATION, panicked, reqQ, respQ, proxy,
                   inflight, lastTerminal, lastGuardEvent>>

\* GET /runtime/invocation/next
GetNext(h) ==
    /\ hs[h].pc = "idle"
    /\ Serve(h, "GET", NextPath, NoBody)

\* POST /runtime/invocation/{id}/response with the request id of the invocation
PostResponseWith(h, body) ==
    /\ hs[h].pc = "invoked"
    /\ body \in BodiesFor(hs[h].resp.body)
    /\ Serve(h, "POST", ResponsePath(hs[h].resp.request_id), body)

PostResponse(h) == \E body \in PostBodies : PostResponseWith(h, body)

\* POST /runtime/invocation/{id}/error
PostError(h) ==
    /\ hs[h].pc = "invoked"
    /\ \E body \in PostBodies : Serve(h, "POST", ErrorPath(hs[h].resp.request_id), body)

\* POST /runtime/init/error, by a handler that fails before its first request
PostInitError(h) ==
    /\ hs[h].pc = "idle"
    /\ hs[h].resp = NoResponse
    /\ \E body \in PostBodies : Serve(h, "POST", InitErrorPath, body)

\* a POST to a path the emulator does not know, by a handler between invocations
PostOtherPath(h) ==
    /\ hs[h].pc = "idle"
    /\ hs[h].resp.from = "response"
    /\ \E body \in PostBodies : Serve(h, "POST", OtherPath, body)

\* the requests that are no POST and no GET of the next invocation
BadRequests ==
    { [method |-> "GET", path |-> OtherPath],
      [method |-> "GET", path |-> ResponsePath(NoId)],
      [method |-> "PUT", path |-> NextPath] }

\* such a request, by a handler that has not made a request yet
BadRequest(h) ==
    /\ hs[h].pc = "idle"
    /\ hs[h].resp = NoResponse
    /\ \E r \in BadRequests : Serve(h, r.method, r.path, NoBody)

(* --------------------------- the proxy lambda -------------------------- *)
Min(a, b) == IF a < b THEN a ELSE b

\* my_handler up to the SendMessage of RequestPayload { event, ctx } to the request queue
ProxySendRequest(p) ==
    /\ sources # "Local"
    /\ proxy[p].pc = "idle"
    /\ \A q \in Proxies : q < p => proxy[q].pc # "idle"
    /\ LET event == EventOf(p) IN
        /\ reqQ' = [reqQ EXCEPT ![p] = [st |-> "visible", rc |-> 0,
                                        event |-> ToJsonString(event), lacks |-> {}]]
        /\ proxy' = [proxy EXCEPT ![p].pc = "purge", ![p].event = event]
    /\ UNCHANGED <<startup, codec, sources, BLOCK_NEXT_INVOCATION, panicked, respQ, hs,
                   inflight, lastTerminal, lastGuardEvent>>

\* Value::Null
JsonNull == Str(<<"n", "u", "l", "l">>, 0, 24)

\* PROXY_LAMBDA_RESP_QUEUE_URL is set for the invocation: the proxy lambda is
\* deployed with the variable for every other caller, and derives the URL of the
\* response queue from its ARN for the rest
RespQueueUrlFromEnv(p) == p % 2 = 1

\* variant: the error of the purge is returned whatever the source of the URL
PurgeFailed_propagate(p, e) ==
    [proxy[p] EXCEPT !.pc = "done", !.batch = {}, !.result = Err(e), !.purged = Err(e)]

\* my_handler after purge_response_queue returned an error: the error is passed on
\* with the URL of the environment, and null is returned with the derived URL
PurgeFailed(p, e) ==
    [proxy[p] EXCEPT !.pc = "done", !.batch = {}, !.purged = Err(e),
                     !.result = IF RespQueueUrlFromEnv(p) THEN Err(e) ELSE Ok(JsonNull)]

\* variant: the messages of the first ReceiveMessage are left where they are
ProxyPurgeReceive_no_delete(p) ==
    /\ proxy[p].pc = "purge"
    /\ \/ \E msgs \in SUBSET Visible(respQ) :
            /\ Cardinality(msgs) = Min(10, Cardinality(Visible(respQ)))
            /\ respQ' = (respQ \ msgs) \cup {[m EXCEPT !.st = "hidden"] : m \in msgs}
            /\ proxy' = [proxy EXCEPT ![p].pc = "poll",
                                      ![p].batch = {m.id : m \in msgs},
                                      ![p].purged = Ok(NoStr)]
       \/ /\ proxy' = [proxy EXCEPT ![p] = PurgeFailed(p, "Error receiving messages")]
          /\ UNCHANGED respQ
    /\ UNCHANGED <<startup, codec, sources, BLOCK_NEXT_INVOCATION, panicked, reqQ, hs,
                   inflight, lastTerminal, lastGuardEvent>>

\* purge_response_queue: ReceiveMessage of up to 10 messages without waiting;
\* no message ends the purge, and so does a failure of the call
ProxyPurgeReceive(p) ==
    /\ proxy[p].pc = "purge"
    /\ \/ \E msgs \in SUBSET Visible(respQ) :
            /\ Cardinality(msgs) = Min(10, Cardinality(Visible(respQ)))
            /\ respQ' = (respQ \ msgs) \cup {[m EXCEPT !.st = "hidden"] : m \in msgs}
            /\ proxy' = [proxy EXCEPT ![p].pc = IF msgs = {} THEN "poll" ELSE "purge_delete",
                                      ![p].batch = {m.id : m \in msgs},
                                      ![p].purged = IF msgs = {} THEN Ok(NoStr) ELSE @]
       \/ /\ proxy' = [proxy EXCEPT ![p] = PurgeFailed(p, "Error receiving messages")]
          /\ UNCHANGED respQ
    /\ UNCHANGED <<startup, codec, sources, BLOCK_NEXT_INVOCATION, panicked, reqQ, hs,
                   inflight, lastTerminal, lastGuardEvent>>

\* purge_response_queue: DeleteMessage for each message received, then receive
\* again; a DeleteMessage that fails ends the purge and leaves the messages it had
\* not come to
ProxyPurgeDelete(p) ==
    /\ proxy[p].pc = "purge_delete"
    /\ \/ /\ respQ' = {m \in respQ : m.id \notin proxy[p].batch}
          /\ proxy' = [proxy EXCEPT ![p].pc = "purge", ![p].batch = {}]
       \/ \E left \in SUBSET proxy[p].batch :
            /\ left # {}
            /\ respQ' = {m \in respQ : m.id \notin (proxy[p].batch \ left)}
            /\ proxy' = [proxy EXCEPT ![p] = PurgeFailed(p, "Error deleting messages")]
    /\ UNCHANGED <<startup, codec, sources, BLOCK_NEXT_INVOCATION, panicked, reqQ, hs,
                   inflight, lastTerminal, lastGuardEvent>>

\* variant: the message is deleted as soon as it is received
ProxyPollReceive_delete_first(p) ==
    /\ proxy[p].pc = "poll"
    /\ \E m \in Visible(respQ) :
        LET body == decode_maybe_binary(m.body) IN
        /\ respQ' = respQ \ {m}
        /\ proxy' = [proxy EXCEPT ![p] =
                        IF body.ok
                        THEN [@ EXCEPT !.pc = "poll_delete", !.handle = m.id, !.body = body.val]
                        ELSE [@ EXCEPT !.pc = "done", !.handle = m.id, !.body = m.body,
                                       !.result = Err(body.err)]]
    /\ UNCHANGED <<startup, codec, sources, BLOCK_NEXT_INVOCATION, panicked, reqQ, hs,
                   inflight, lastTerminal, lastGuardEvent>>

\* the wait loop: a ReceiveMessage returns one message, whose body is decoded;
\* a body that does not decode ends the invocation with an error
ProxyPollReceive(p) ==
    /\ proxy[p].pc = "poll"
    /\ \E m \in Visible(respQ) :
        LET body == decode_maybe_binary(m.body) IN
        /\ respQ' = (respQ \ {m}) \cup {[m EXCEPT !.st = "hidden"]}
        /\ proxy' = [proxy EXCEPT ![p] =
                        IF body.ok
                        THEN [@ EXCEPT !.pc = "poll_delete", !.handle = m.id, !.body = body.val]
                        ELSE [@ EXCEPT !.pc = "done", !.handle = m.id, !.body = m.body,
                                       !.result = Err(body.err)]]
    /\ UNCHANGED <<startup, codec, sources, BLOCK_NEXT_INVOCATION, panicked, reqQ, hs,
                   inflight, lastTerminal, lastGuardEvent>>

\* variant: a ReceiveMessage that failed ends the invocation with null
ProxyPollFailed_null(p) ==
    /\ proxy[p].pc = "poll"
    /\ proxy' = [proxy EXCEPT ![p].pc = "done", ![p].result = Ok(JsonNull)]
    /\ UNCHANGED <<startup, codec, sources, BLOCK_NEXT_INVOCATION, panicked, reqQ, respQ, hs,
                   inflight, lastTerminal, lastGuardEvent>>

\* the wait loop: the ReceiveMessage failed and the invocation returns the error;
\* an answer without a message repeats the call and changes nothing
ProxyPollFailed(p) ==
    /\ proxy[p].pc = "poll"
    /\ proxy' = [proxy EXCEPT ![p].pc = "done", ![p].result = Err("Failed to receive messages")]
    /\ UNCHANGED <<startup, codec, sources, BLOCK_NEXT_INVOCATION, panicked, reqQ, respQ, hs,
                   inflight, lastTerminal, lastGuardEvent>>

\* variant: the message is left in the queue
ProxyPollDelete_keep(p) ==
    /\ proxy[p].pc = "poll_delete"
    /\ respQ' = respQ
    /\ proxy' = [proxy EXCEPT ![p].pc = "done", ![p].result = FromStr(proxy[p].body)]
    /\ UNCHANGED <<startup, codec, sources, BLOCK_NEXT_INVOCATION, panicked, reqQ, hs,
                   inflight, lastTerminal, lastGuardEvent>>

\* the message is deleted and its body, parsed as JSON, is the result
ProxyPollDelete(p) ==
    /\ proxy[p].pc = "poll_delete"
    /\ respQ' = {m \in respQ : m.id # proxy[p].handle}
    /\ proxy' = [proxy EXCEPT ![p].pc = "done", ![p].result = FromStr(proxy[p].body)]
    /\ UNCHANGED <<startup, codec, sources, BLOCK_NEXT_INVOCATION, panicked, reqQ, hs,
                   inflight, lastTerminal, lastGuardEvent>>

(* ------------------------------ the codec ------------------------------ *)
\* UTF-8 texts given to the codec: the empty text, short texts, and texts of 262143,
\* 262144 and 300000 bytes, which open as an object (with or without leading
\* whitespace), as a string, as an array, or as Base58 text
CodecInputs ==
    {Str(<<>>, 0, 20)}
    \cup {Str(chars, pad, gz) :
            chars \in { <<"{", "}">>, <<" ", "{">>, <<"\"", "p">>, <<"[", "1">>,
                        <<"1", "p">>, <<" ", "p">> },
            pad \in {0, 262141, 262142, 299998},
            gz \in {1000, 250000}}

\* the emulator compresses the text for the response queue
CodecEncode ==
    /\ codec.pc = "input"
    /\ codec' = [codec EXCEPT !.pc = "encoded", !.encoded = compress_output(codec.input)]
    /\ UNCHANGED <<startup, sources, BLOCK_NEXT_INVOCATION, panicked, reqQ, respQ, proxy, hs,
                   inflight, lastTerminal, lastGuardEvent>>

\* the proxy lambda decodes what the emulator sent
CodecDecode ==
    /\ codec.pc = "encoded"
    /\ codec' = [codec EXCEPT !.pc = "decoded", !.decoded = decode_maybe_binary(codec.encoded)]
    /\ UNCHANGED <<startup, sources, BLOCK_NEXT_INVOCATION, panicked, reqQ, respQ, proxy, hs,
                   inflight, lastTerminal, lastGuardEvent>>

\* the proxy lambda decodes a body that did not go through compress_output
CodecDecodeInput ==
    /\ codec.pc = "input"
    /\ codec' = [codec EXCEPT !.pc = "decoded_input", !.decoded = decode_maybe_binary(codec.input)]
    /\ UNCHANGED <<startup, sources, BLOCK_NEXT_INVOCATION, panicked, reqQ, respQ, proxy, hs,
                   inflight, lastTerminal, lastGuardEvent>>

(* ---------------------------- specification ---------------------------- *)
\* the emulator, its local handlers and the request queue
EmulatorStep ==
    \/ \E h \in Handlers : RestartHandler(h)
    \/ \E h \in Handlers : GetNext(h)
    \/ \E h \in Handlers : block_if_rerun_unblock(h)
    \/ \E h \in Handlers : get_input(h)
    \/ \E h \in Handlers : PostResponse(h)
    \/ \E h \in Handlers : send_output_send(h)
    \/ \E h \in Handlers : send_output_delete(h)
    \/ \E h \in Handlers : PostError(h)
    \/ \E h \in Handlers : PostInitError(h)
    \/ \E p \in Proxies : VisibilityTimeout(p)
    \/ \E p \in Proxies : ProxySendRequest(p)

\* The emulator never reads the response queue, so what the proxy lambda does after
\* it has enqueued its request does not reach the emulator: Spec leaves those steps
\* out and lets several handlers connect.
Next ==
    \/ \E h \in Handlers : StartHandler(h)
    \/ EmulatorStep

Spec == Init /\ [][Next]_vars

\* The whole pipeline, caller to caller, with the one local handler the design assumes.
PipelineNext ==
    \/ EmulatorStep
    \/ \E p \in Proxies : ProxyPurgeReceive(p)
    \/ \E p \in Proxies : ProxyPurgeDelete(p)
    \/ \E p \in Proxies : ProxyPollReceive(p)
    \/ \E p \in Proxies : ProxyPollDelete(p)

PipelineSpec == Init /\ [][PipelineNext]_vars

\* The router: one local handler that also makes the requests a handler following
\* the Runtime API does not make.
RouterNext ==
    \/ EmulatorStep
    \/ \E h \in Handlers : PostOtherPath(h)
    \/ \E h \in Handlers : BadRequest(h)

RouterSpec == Init /\ [][RouterNext]_vars

(* the wait loop of the proxy lambda and the failures of ReceiveMessage *)
PollNext ==
    \/ \E p \in Proxies : ProxySendRequest(p)
    \/ \E p \in Proxies : ProxyPurgeReceive(p)
    \/ \E p \in Proxies : ProxyPurgeDelete(p)
    \/ \E p \in Proxies : ProxyPollReceive(p)
    \/ \E p \in Proxies : ProxyPollDelete(p)
    \/ \E p \in Proxies : ProxyPollFailed(p)
    \/ \E h \in Handlers : GetNext(h)
    \/ \E h \in Handlers : get_input(h)
    \/ \E h \in Handlers : PostResponse(h)
    \/ \E h \in Handlers : send_output_send(h)
    \/ \E h \in Handlers : send_output_delete(h)

\* The proxy lambda with a response queue whose ReceiveMessage can fail, and a local
\* handler that answers every invocation.
PollSpec == Init /\ [][PollNext]_vars

(* send_output and the failures of SendMessage and DeleteMessage *)
SendOutputNext ==
    \/ EmulatorStep
    \/ \E h \in Handlers : send_output_send_failed(h)
    \/ \E h \in Handlers : send_output_delete_failed(h)

\* The one local handler with queues whose SendMessage and DeleteMessage can fail.
SendOutputSpec == Init /\ [][SendOutputNext]_vars

(* the proxy lambda and the response it receives *)
\* bodies of response messages: each text of CodecInputs as send_output sends it,
\* and as it is when it is short enough
ResponseBodies ==
    {b \in CodecInputs \cup {compress_output(t) : t \in CodecInputs} : FitsSqs(b)}

\* The wait loop of an invocation of the proxy lambda on each response: the request
\* has been answered and deleted, and the response is in the queue.
ResponseInit ==
    /\ sources = "Remote"
    /\ BLOCK_NEXT_INVOCATION = FALSE
    /\ panicked = FALSE
    /\ \E n \in Proxies :
        /\ respQ \in {{[id |-> Receipt(n, 1), body |-> b, st |-> "visible"]} : b \in ResponseBodies}
        /\ reqQ = [p \in Proxies |->
                    IF p = n THEN [st |-> "deleted", rc |-> 1, event |-> ToJsonString(EventOf(p)),
                                   lacks |-> {}]
                    ELSE [st |-> "none", rc |-> 0, event |-> NoStr, lacks |-> {}]]
        /\ proxy = [p \in Proxies |->
                    IF p = n THEN [NoInvocation EXCEPT !.pc = "poll", !.event = EventOf(p),
                                                       !.purged = Ok(NoStr)]
                    ELSE NoInvocation]
    /\ hs = [h \in Handlers |-> [pc |-> IF h = 1 THEN "idle" ELSE "off",
                                 resp |-> NoResponse, out |-> NoOut]]
    /\ inflight = {}
    /\ lastTerminal = "response"
    /\ lastGuardEvent = "start"
    /\ codec = NoCodec
    /\ startup = NoStartup

ResponseNext ==
    \/ \E p \in Proxies : ProxyPollReceive(p)
    \/ \E p \in Proxies : ProxyPollDelete(p)

ResponseSpec == ResponseInit /\ [][ResponseNext]_vars

(* get_input and the failures of ReceiveMessage *)
GetInputNext ==
    \/ EmulatorStep
    \/ \E h \in Handlers : get_input_error(h)
    \/ \E h \in Handlers : get_input_sleep(h)

\* The one local handler with a request queue whose ReceiveMessage can fail. The
\* sleep ends, and a ReceiveMessage that can return a message again and again
\* does return one: SQS is not down for ever.
GetInputSpec ==
    /\ Init /\ [][GetInputNext]_vars
    /\ \A h \in Handlers : WF_vars(get_input_sleep(h)) /\ SF_vars(get_input(h))

(* get_input and the messages the proxy lambda did not send *)
\* messages get_input does not take: no body, no receipt handle, a body that is
\* not JSON
InvalidMessages ==
    { [st |-> "visible", rc |-> 0, event |-> e, lacks |-> l] :
        e \in {ToJsonString(Events[1])}, l \in {{"body"}, {"receipt_handle"}} }
    \cup { [st |-> "visible", rc |-> 0, event |-> Str(<<"{">>, 0, 20), lacks |-> {}] }

\* a sender that is not the proxy lambda puts a message on the request queue
SendInvalidRequest(p) ==
    /\ sources # "Local"
    /\ proxy[p].pc = "idle"
    /\ \A q \in Proxies : q < p => proxy[q].pc # "idle"
    /\ \E msg \in InvalidMessages : reqQ' = [reqQ EXCEPT ![p] = msg]
    /\ proxy' = [proxy EXCEPT ![p].pc = "foreign"]
    /\ UNCHANGED <<startup, codec, sources, BLOCK_NEXT_INVOCATION, panicked, respQ, hs,
                   inflight, lastTerminal, lastGuardEvent>>

RequestQueueNext ==
    \/ EmulatorStep
    \/ \E p \in Proxies : SendInvalidRequest(p)
    \/ \E h \in Handlers : get_input_invalid(h)

\* The one local handler and a request queue that other senders write to.
RequestQueueSpec == Init /\ [][RequestQueueNext]_vars

(* the proxy lambda from its invocation to the purge *)
\* the numbers of parts invoked_function_arn splits into on ':'
ArnParts == {6, 7, 8}

\* variant: an ARN of more than seven parts is accepted
ArnOk_at_least(arn) == arn >= 7

\* arn.len() != 7 is a "Context error"
ArnOk(arn) == arn = 7

\* variant: a SendMessage that failed is passed over
SendMessageFailed_ignored(p) == [proxy[p] EXCEPT !.pc = "purge", !.event = EventOf(p)]

\* the SendMessage to the request queue failed: the invocation returns the error
SendMessageFailed(p) ==
    [proxy[p] EXCEPT !.pc = "done", !.event = EventOf(p), !.result = Err("Failed to send message")]

\* my_handler from its start to the URL of the response queue: the URL of the
\* request queue is the variable of the environment or is made of the ARN, the
\* request is sent, and the URL of the response queue is found the same way
my_handler_send(p) ==
    LET event == EventOf(p)
        context_error == [proxy[p] EXCEPT !.pc = "done", !.event = event,
                                          !.result = Err("Context error")]
    IN
    /\ proxy[p].pc = "idle"
    /\ \A q \in Proxies : q < p => proxy[q].pc # "idle"
    /\ IF ~proxy[p].PROXY_LAMBDA_REQ_QUEUE_URL /\ ~ArnOk(proxy[p].arn)
       THEN proxy' = [proxy EXCEPT ![p] = context_error] /\ UNCHANGED reqQ
       ELSE \/ /\ proxy' = [proxy EXCEPT ![p] = SendMessageFailed(p)]
               /\ UNCHANGED reqQ
            \/ /\ reqQ' = [reqQ EXCEPT ![p] = [st |-> "visible", rc |-> 0,
                                                event |-> ToJsonString(event), lacks |-> {}]]
               /\ IF ~RespQueueUrlFromEnv(p) /\ ~ArnOk(proxy[p].arn)
                  THEN proxy' = [proxy EXCEPT ![p] = context_error]
                  ELSE proxy' = [proxy EXCEPT ![p].pc = "purge", ![p].event = event]
    /\ UNCHANGED <<startup, codec, sources, BLOCK_NEXT_INVOCATION, panicked, respQ, hs,
                   inflight, lastTerminal, lastGuardEvent>>

\* a response that an earlier invocation did not wait for
StaleResponse == [id |-> Receipt(0, 1), body |-> Events[1], st |-> "visible"]

\* The proxy lambda on each ARN and environment, up to the end of its purge; the
\* response queue is empty or holds a stale response.
ProxyInit ==
    /\ sources = "Remote"
    /\ BLOCK_NEXT_INVOCATION = FALSE
    /\ panicked = FALSE
    /\ reqQ = [p \in Proxies |-> [st |-> "none", rc |-> 0, event |-> NoStr, lacks |-> {}]]
    /\ respQ \in {{}, {StaleResponse}}
    /\ proxy \in [Proxies -> {[NoInvocation EXCEPT !.arn = a, !.PROXY_LAMBDA_REQ_QUEUE_URL = e] :
                                a \in ArnParts, e \in BOOLEAN}]
    /\ hs = [h \in Handlers |-> [pc |-> IF h = 1 THEN "idle" ELSE "off",
                                 resp |-> NoResponse, out |-> NoOut]]
    /\ inflight = {}
    /\ lastTerminal = "none"
    /\ lastGuardEvent = "start"
    /\ codec = NoCodec
    /\ startup = NoStartup

ProxyNext ==
    \/ \E p \in Proxies : my_handler_send(p)
    \/ \E p \in Proxies : ProxyPurgeReceive(p)
    \/ \E p \in Proxies : ProxyPurgeDelete(p)

ProxySpec == ProxyInit /\ [][ProxyNext]_vars

(* startup: Config::from_env *)
\* what is on the command line where the payload file goes: nothing, a file that can
\* be read, a file that cannot, or --help
PayloadArgs == {None, "readable", "unreadable", "--help"}

\* the environments and the default queues SQS lists: each may be there or not
StartupInputs ==
    { [NoStartup EXCEPT !.pc = "get_local_payload", !.payload_file = a,
                        !.env = [PROXY_LAMBDA_REQ_QUEUE_URL |-> er,
                                 PROXY_LAMBDA_RESP_QUEUE_URL |-> ep,
                                 LAMBDA_PROXY_RESP_QUEUE_URL |-> el],
                        !.default_queues = [req |-> dq, resp |-> dp]] :
        a \in PayloadArgs,
        er \in {None, "env-req"}, ep \in {None, "env-resp"}, el \in {None, "env-resp-old-name"},
        dq \in {None, "default-req"}, dp \in {None, "default-resp"} }

\* the payload source of a RemoteConfig
RemoteSources(remote_config) ==
    IF remote_config.response_queue_url = None THEN "RemoteNoResponseQueue" ELSE "Remote"

\* variant: a payload file that cannot be read is no payload file
get_local_payload_lenient ==
    /\ startup.pc = "get_local_payload"
    /\ CASE startup.payload_file = "--help" ->
                startup' = [startup EXCEPT !.pc = "exit"] /\ UNCHANGED sources
         [] startup.payload_file = "readable" ->
                startup' = [startup EXCEPT !.pc = "done"] /\ sources' = "Local"
         [] OTHER ->
                startup' = [startup EXCEPT !.pc = "get_queues"] /\ UNCHANGED sources
    /\ UNCHANGED <<codec, BLOCK_NEXT_INVOCATION, panicked, reqQ, respQ, proxy, hs,
                   inflight, lastTerminal, lastGuardEvent>>

\* get_local_payload: --help prints the usage and exits; a file that is read makes
\* the source Local; a file that is not read is a panic; no argument leaves the
\* source to get_queues
get_local_payload ==
    /\ startup.pc = "get_local_payload"
    /\ CASE startup.payload_file = "--help" ->
                startup' = [startup EXCEPT !.pc = "exit"] /\ UNCHANGED sources
         [] startup.payload_file = "readable" ->
                startup' = [startup EXCEPT !.pc = "done"] /\ sources' = "Local"
         [] startup.payload_file = "unreadable" ->
                startup' = [startup EXCEPT !.pc = "panic"] /\ UNCHANGED sources
         [] OTHER ->
                startup' = [startup EXCEPT !.pc = "get_queues"] /\ UNCHANGED sources
    /\ UNCHANGED <<codec, BLOCK_NEXT_INVOCATION, panicked, reqQ, respQ, proxy, hs,
                   inflight, lastTerminal, lastGuardEvent>>

\* Option::or
OrElse(a, b) == IF a # None THEN a ELSE b

\* get_queues and the end of from_env: the variables of the environment come before
\* the default queues, which are listed when a variable is missing; no request
\* queue is a panic, no response queue is not
get_queues ==
    LET request_queue_url == startup.env.PROXY_LAMBDA_REQ_QUEUE_URL
        response_queue_url == startup.env.LAMBDA_PROXY_RESP_QUEUE_URL
        listed == request_queue_url = None \/ response_queue_url = None
        default_req_queue == IF listed THEN startup.default_queues.req ELSE None
        default_resp_queue == IF listed THEN startup.default_queues.resp ELSE None
        remote_config == [request_queue_url |-> OrElse(request_queue_url, default_req_queue),
                          response_queue_url |-> OrElse(response_queue_url, default_resp_queue)]
    IN
    /\ startup.pc = "get_queues"
    /\ IF remote_config.request_queue_url = None
       THEN startup' = [startup EXCEPT !.pc = "panic", !.listed = listed] /\ UNCHANGED sources
       ELSE /\ startup' = [startup EXCEPT !.pc = "done", !.listed = listed,
                                          !.request_queue_url = remote_config.request_queue_url,
                                          !.response_queue_url = remote_config.response_queue_url]
            /\ sources' = RemoteSources(remote_config)
    /\ UNCHANGED <<codec, BLOCK_NEXT_INVOCATION, panicked, reqQ, respQ, proxy, hs,
                   inflight, lastTerminal, lastGuardEvent>>

\* The start of the emulator: from_env on each command line and environment.
StartupInit ==
    /\ sources = None
    /\ StartState
    /\ codec = NoCodec
    /\ startup \in StartupInputs

StartupNext ==
    \/ get_local_payload
    \/ get_queues

StartupSpec == StartupInit /\ [][StartupNext]_vars

\* The codec on its own: compress_output and decode_maybe_binary applied to each text
\* of CodecInputs.
CodecInit ==
    /\ sources \in {"Local", "Remote"}
    /\ StartState
    /\ codec \in {[NoCodec EXCEPT !.pc = "input", !.input = s] : s \in CodecInputs}
    /\ startup = NoStartup

CodecNext ==
    \/ CodecEncode
    \/ CodecDecode
    \/ CodecDecodeInput

CodecSpec == CodecInit /\ [][CodecNext]_vars

\* The emulator with a request queue and no response queue: send_output sends
\* nothing, and the proxy lambda's callers do not wait for an answer.
NoResponseQueueInit ==
    /\ sources = "RemoteNoResponseQueue"
    /\ StartState
    /\ codec = NoCodec
    /\ startup = NoStartup

NoResponseQueueNext ==
    \/ \E h \in Handlers : StartHandler(h)
    \/ \E h \in Handlers : RestartHandler(h)
    \/ \E h \in Handlers : GetNext(h)
    \/ \E h \in Handlers : block_if_rerun_unblock(h)
    \/ \E h \in Handlers : get_input(h)
    \/ \E h \in Handlers : PostResponse(h)
    \/ \E h \in Handlers : send_output_dropped(h)
    \/ \E h \in Handlers : PostError(h)
    \/ \E h \in Handlers : PostInitError(h)
    \/ \E p \in Proxies : VisibilityTimeout(p)
    \/ \E p \in Proxies : ProxySendRequest(p)

NoResponseQueueSpec == NoResponseQueueInit /\ [][NoResponseQueueNext]_vars

(* ------------------------------ properties ----------------------------- *)
\* only the first handler has ever connected
Single == \A h \in Handlers : h # 1 => hs[h].pc = "off"

\* the positions of the calls of one API in the call list of a /response request
CallsOf(o, api) == {i \in 1..Len(o.calls) : o.calls[i].api = api}

\* handler h has received 200 for its POST /response
Answered200(h) == hs[h].resp.from = "response" /\ hs[h].resp.status = 200

\* C1: remote happy path. A response B that is valid JSON and shorter than 262144
\* bytes is sent to the response queue as it is, and a proxy-lambda invocation that
\* has consumed the message with body B returns B as its result.
C1_RemoteHappyPath ==
    /\ \A h \in Handlers :
        (hs[h].pc = "send_output_delete" /\ IsJson(hs[h].out.sqs_payload)
            /\ StrLen(hs[h].out.sqs_payload) < 262144)
        => hs[h].out.response = hs[h].out.sqs_payload
    /\ \A p \in Proxies :
        (proxy[p].pc = "done" /\ proxy[p].handle # NoId /\ IsJson(proxy[p].body)
            /\ StrLen(proxy[p].body) < 262144)
        => proxy[p].result = Ok(FromStr(proxy[p].body).val)

\* in Remote mode a /response request that returned 200 has issued exactly one
\* DeleteMessage, on the request queue, with the receipt handle of its URL, which is
\* the request id next_invocation handed out and a receipt handle SQS issued; no
\* request issues more than one, and no two requests delete with the same handle.
C2_DeleteInv ==
    sources = "Remote" =>
        /\ \A h \in Handlers :
            LET o == hs[h].out
                dels == CallsOf(o, "DeleteMessage")
            IN
            /\ Cardinality(dels) <= 1
            /\ Answered200(h) => Cardinality(dels) = 1 /\ reqQ[o.receipt_handle.msg].st = "deleted"
            /\ \A i \in dels :
                /\ o.calls[i].queue = "request"
                /\ o.calls[i].receipt_handle = o.receipt_handle
                /\ DeleteRequestOk(reqQ, o.receipt_handle)
        /\ \A h1, h2 \in Handlers :
            (h1 # h2 /\ CallsOf(hs[h1].out, "DeleteMessage") # {}
                /\ CallsOf(hs[h2].out, "DeleteMessage") # {})
            => hs[h1].out.receipt_handle # hs[h2].out.receipt_handle

\* C2: a POST /response in Remote mode deletes with the request id of the
\* invocation, and every such request that is answered has made exactly one
\* DeleteMessage with it.
C2_DeleteOncePerResponse ==
    /\ []C2_DeleteInv
    /\ [][\A h \in Handlers : \A body \in PostBodies :
            (sources = "Remote" /\ body.utf8 /\ PostResponseWith(h, body))
            => /\ hs[h].resp.request_id.id = "receipt"
               /\ hs'[h].out.receipt_handle = hs[h].resp.request_id]_vars

C2_Witness ==
    /\ sources = "Remote"
    /\ \E h \in Handlers : Answered200(h) /\ hs[h].out.receipt_handle.n = 2

\* a /response request that is through with its SendMessage has sent its encoded
\* body, once, if that is shorter than 262144 bytes
C3_SendInv ==
    sources = "Remote" =>
        \A h \in Handlers :
            LET o == hs[h].out
                sends == CallsOf(o, "SendMessage")
            IN
            (hs[h].pc = "send_output_delete" /\ StrLen(compress_output(o.sqs_payload)) < 262144)
            => /\ o.calls = <<SqsCall("SendMessage", "response", o.receipt_handle)>>
               /\ \E m \in respQ : m.id = o.receipt_handle
                                   /\ m.body = compress_output(o.sqs_payload)

\* C3: in Remote mode a /response request whose encoded body is shorter than 262144
\* bytes writes exactly one message, the encoded body, to the response queue, and
\* its SendMessage comes before its DeleteMessage.
C3_SendBeforeDelete ==
    /\ []C3_SendInv
    /\ [][\A h \in Handlers :
            (sources = "Remote" /\ hs[h].pc = "send_output_delete"
                /\ hs'[h].pc # "send_output_delete"
                /\ StrLen(compress_output(hs[h].out.sqs_payload)) < 262144)
            => LET rh == hs[h].out.receipt_handle IN
               /\ hs'[h].out.calls = <<SqsCall("SendMessage", "response", rh),
                                       SqsCall("DeleteMessage", "request", rh)>>
               /\ respQ' = respQ]_vars

C3_Witness ==
    /\ sources = "Remote"
    /\ \E h \in Handlers :
        /\ Answered200(h)
        /\ Len(hs[h].out.calls) = 2
        /\ \E m \in respQ : m.id = hs[h].out.receipt_handle /\ m.body.enc

\* C4, as claimed: at most one request message is in flight, whatever the number
\* of concurrent GET /invocation/next requests.
C4_OneInFlight == Cardinality({r.msg : r \in inflight}) <= 1

\* C4, amended: with one handler that answers each invocation before its next GET,
\* at most one request message is in flight and no ReceiveMessage is outstanding
\* while it is unanswered.
C4_OneInFlightSingleHandler ==
    Single =>
        /\ Cardinality(inflight) <= 1
        /\ inflight # {} => \A h \in Handlers : hs[h].pc # "get_input"

C4_Witness ==
    /\ Single
    /\ Cardinality(inflight) = 1
    /\ \E p \in Proxies : reqQ[p].st = "visible"

\* C5: a 200 of next_invocation carries, as lambda-runtime-aws-request-id, the
\* receipt handle SQS issued for the message whose event is the body (Remote), or
\* local-request-id (Local).
C5_RequestIdIsReceipt ==
    \A h \in Handlers :
        (hs[h].resp.from = "next" /\ hs[h].resp.status = 200)
        => IF sources = "Local"
           THEN hs[h].resp.request_id = LOCAL_REQUEST_ID /\ hs[h].resp.body = PayloadFile
           ELSE LET id == hs[h].resp.request_id IN
                /\ id.id = "receipt"
                /\ id.msg \in Proxies
                /\ id.n >= 1 /\ id.n <= reqQ[id.msg].rc
                /\ hs[h].resp.body = ToJsonString(proxy[id.msg].event)

C5_Witness ==
    /\ sources = "Remote"
    /\ \E h \in Handlers : hs[h].resp.from = "next" /\ hs[h].resp.status = 200
                           /\ hs[h].resp.request_id.msg = 2

C7_ErrorSetsGuard ==
    [][\A h \in Handlers :
        (PostError(h) \/ PostInitError(h))
        => /\ BLOCK_NEXT_INVOCATION' = TRUE
           /\ hs'[h].resp.from = "error"
           /\ hs'[h].resp.status = 500
           /\ StrLen(hs'[h].resp.body) = 0
           /\ hs'[h].pc # "failed"
           /\ panicked' = FALSE]_vars

C7_Witness ==
    /\ sources = "Local"
    /\ BLOCK_NEXT_INVOCATION
    /\ \E h \in Handlers : hs[h].resp.from = "error" /\ hs[h].resp.status = 500

\* the emulator is serving a POST /response of handler h
InResponse(h) == hs[h].pc \in {"send_output", "send_output_delete"}

\* C8: in Local mode a POST /response issues no SendMessage and no DeleteMessage,
\* and when it is done the guard is set and the handler has its 200.
C8_LocalResponse ==
    /\ [](sources = "Local" => \A h \in Handlers : hs[h].out.calls = <<>>)
    /\ [][\A h \in Handlers :
            (sources = "Local" /\ InResponse(h) /\ ~InResponse(h)')
            => Answered200(h)' /\ BLOCK_NEXT_INVOCATION' = TRUE]_vars

\* C9: a GET /invocation/next that finds the guard set clears it and parks: it
\* gets no response and no payload and receives nothing from the request queue;
\* a GET that follows the park, with no /error and no Local /response in between,
\* is not parked and goes on to its payload.
C9_ParkOnce ==
    [][\A h \in Handlers :
        /\ (GetNext(h) /\ BLOCK_NEXT_INVOCATION)
            => hs'[h].pc = "next_unblock" /\ hs'[h].resp = NoResponse /\ reqQ' = reqQ
        /\ block_if_rerun_unblock(h)
            => /\ BLOCK_NEXT_INVOCATION' = FALSE
               /\ hs'[h].pc = "parked" /\ hs'[h].resp = NoResponse /\ reqQ' = reqQ
        /\ hs[h].pc = "parked" => (hs'[h] = hs[h] \/ RestartHandler(h))
        /\ (GetNext(h) /\ lastGuardEvent = "park")
            => IF sources = "Local"
               THEN hs'[h].pc = "invoked" /\ hs'[h].resp = LocalNextResponse(PayloadFile)
               ELSE hs'[h].pc = "get_input"]_vars

C9_Witness ==
    /\ lastGuardEvent = "park"
    /\ \E h, g \in Handlers :
        /\ hs[h].pc = "parked"
        /\ hs[g].pc = "invoked" /\ hs[g].resp.status = 200

\* C10: local file replay. The first GET /invocation/next returns the file; the
\* handler's POST /response ends with 200; the GET that comes after that 200
\* parks and does not return the file again.
C10_LocalReplay ==
    [][\A h \in Handlers :
        sources = "Local" =>
            /\ (GetNext(h) /\ lastGuardEvent = "start")
                => hs'[h].pc = "invoked" /\ hs'[h].resp = LocalNextResponse(PayloadFile)
            /\ (hs[h].pc = "send_output_delete" /\ hs'[h].pc # "send_output_delete")
                => Answered200(h)'
            /\ (GetNext(h) /\ Answered200(h))
                => hs'[h].pc = "next_unblock" /\ hs'[h].resp = NoResponse]_vars

\* C11: in Remote mode a POST /error issues no DeleteMessage and no SendMessage:
\* both queues are as they were and the failed message is still in the request
\* queue; the GET /invocation/next that comes next finds the guard set and parks.
C11_RemoteErrorKeepsMessage ==
    [][\A h \in Handlers :
        sources = "Remote" =>
            /\ PostError(h)
                => /\ reqQ' = reqQ /\ respQ' = respQ
                   /\ hs'[h].out.calls = <<>>
                   /\ Single => reqQ'[hs[h].resp.request_id.msg].st \in {"hidden", "visible"}
            /\ (GetNext(h) /\ (lastGuardEvent = "error" \/ (Single /\ hs[h].resp.from = "error")))
                => hs'[h].pc = "next_unblock" /\ hs'[h].resp = NoResponse /\ reqQ' = reqQ
            /\ hs[h].pc = "next_unblock" => hs'[h].pc \in {"next_unblock", "parked"}]_vars

C11_Witness ==
    /\ sources = "Remote"
    /\ Single
    /\ hs[1].pc = "parked"
    /\ lastTerminal = "error"
    /\ \E p \in Proxies : reqQ[p].st = "hidden" /\ reqQ[p].rc = 1
    /\ respQ = {}

\* C12: a proxy-lambda invocation never returns a stale response. The purge ends
\* with no message left to receive in the response queue, and the message an
\* invocation takes from the queue afterwards is the one the emulator sent in
\* answer to the request this invocation enqueued.
C12_NoStaleResponse ==
    /\ [][\A p \in Proxies :
            (proxy[p].pc = "purge" /\ proxy'[p].pc = "poll") => Visible(respQ) = {}]_vars
    /\ [](\A p \in Proxies :
            (proxy[p].handle # NoId
                /\ (proxy[p].pc = "poll_delete" \/ (proxy[p].pc = "done" /\ proxy[p].result.ok)))
            => proxy[p].handle.msg = p)

\* C13: when the purge fails after the request was enqueued, an invocation whose
\* response queue URL was derived from the ARN returns JSON null, and one whose
\* URL came from PROXY_LAMBDA_RESP_QUEUE_URL returns an error; neither polls the
\* response queue, and the request stays enqueued.
C13_PurgeFailure ==
    [][\A p \in Proxies :
        (proxy[p].pc \in {"purge", "purge_delete"} /\ proxy'[p].pc \notin {"purge", "purge_delete", "poll"})
        => /\ proxy'[p].pc = "done"
           /\ proxy'[p].handle = NoId
           /\ reqQ[p].st # "none" /\ reqQ' = reqQ
           /\ IF RespQueueUrlFromEnv(p)
              THEN ~proxy'[p].result.ok
                   /\ proxy'[p].result.err \in {"Error receiving messages", "Error deleting messages"}
              ELSE proxy'[p].result = Ok(JsonNull)]_vars

C13_Witness ==
    /\ \E p \in Proxies :
        /\ ~RespQueueUrlFromEnv(p)
        /\ proxy[p].pc = "done" /\ proxy[p].result = Ok(JsonNull) /\ reqQ[p].st = "visible"
    /\ \E p \in Proxies :
        /\ RespQueueUrlFromEnv(p)
        /\ proxy[p].pc = "done" /\ proxy[p].handle = NoId
        /\ proxy[p].result = Err("Error deleting messages")

\* C14: a proxy-lambda invocation that waits and succeeds consumes exactly one
\* response message after its purge: its one DeleteMessage removes the message
\* whose (decoded) body it returns and no other, receiving removes nothing, and an
\* invocation that has returned does nothing more.
C14_ConsumesOne ==
    /\ [][\A p \in Proxies :
            /\ ProxyPollReceive(p) => {m.id : m \in respQ'} = {m.id : m \in respQ}
            /\ ProxyPollDelete(p)
                => \E m \in respQ :
                    /\ m.id = proxy[p].handle
                    /\ respQ' = respQ \ {m}
                    /\ decode_maybe_binary(m.body) = Ok(proxy[p].body)
                    /\ proxy'[p].result = FromStr(proxy[p].body)
            /\ proxy[p].pc = "done" => proxy'[p] = proxy[p]]_vars
    /\ [](\A p \in Proxies :
            (proxy[p].pc = "done" /\ proxy[p].result.ok /\ proxy[p].handle # NoId)
            => /\ proxy[p].result.val = FromStr(proxy[p].body).val
               /\ \A m \in respQ : m.id # proxy[p].handle)

C14_Witness ==
    \E p \in Proxies :
        /\ proxy[p].pc = "done" /\ proxy[p].result.ok /\ proxy[p].handle # NoId
        /\ proxy[p].body.pad > 0
        /\ \E m \in respQ : m.id # proxy[p].handle

\* the first character of the text that is not whitespace is {
OpensObject(s) == ~s.enc /\ TrimStart(s.chars) # <<>> /\ Head(TrimStart(s.chars)) = "{"

C16_Identity ==
    /\ codec.pc \in {"encoded", "decoded"}
        => (codec.encoded = codec.input <=> StrLen(codec.input) < 262144)
    /\ (codec.pc = "decoded_input" /\ (StrLen(codec.input) = 0 \/ OpensObject(codec.input)))
        => codec.decoded = Ok(codec.input)
    /\ (codec.pc = "decoded" /\ (StrLen(codec.encoded) = 0 \/ OpensObject(codec.encoded)))
        => codec.decoded = Ok(codec.encoded)

C16_Witness ==
    /\ codec.pc = "decoded"
    /\ StrLen(codec.input) = 262143
    /\ codec.input.chars = <<" ", "{">>
    /\ codec.encoded = codec.input
    /\ codec.decoded = Ok(codec.input)

\* C17: in send_output (Remote mode) a response that is still 262144 bytes or more
\* when encoded is not sent: no SendMessage is issued, nothing reaches the response
\* queue, and the emulator keeps running and goes on to its DeleteMessage.
C17_TooLongNotSent ==
    /\ [](sources = "Remote" =>
            \A h \in Handlers :
                (hs[h].pc = "send_output_delete" /\ StrLen(hs[h].out.response) >= 262144)
                => /\ hs[h].out.calls = <<>>
                   /\ \A m \in respQ : m.id # hs[h].out.receipt_handle)
    /\ [][\A h \in Handlers :
            (sources = "Remote" /\ send_output_send(h) /\ StrLen(hs[h].out.response) >= 262144)
            => /\ respQ' = respQ
               /\ hs'[h].pc = "send_output_delete"
               /\ panicked' = FALSE]_vars

C17_Witness ==
    /\ sources = "Remote"
    /\ ~panicked
    /\ \E h \in Handlers :
        /\ hs[h].pc = "send_output_delete"
        /\ hs[h].out.response.enc /\ StrLen(hs[h].out.response) >= 262144
        /\ hs[h].out.calls = <<>>

C19_Routing ==
    [][\A h \in Handlers :
        /\ GetNext(h) => next_invocation(h)
        /\ \A body \in PostBodies :
            PostResponseWith(h, body)
            => lambda_response(h, ResponsePath(hs[h].resp.request_id), body)
        /\ PostError(h)
            => \E body \in PostBodies : lambda_error(h, ErrorPath(hs[h].resp.request_id), body)
        /\ PostOtherPath(h)
            => /\ \E body \in PostBodies : lambda_error(h, OtherPath, body)
               /\ BLOCK_NEXT_INVOCATION' = TRUE
               /\ hs'[h].resp = HttpResponse("error", 500, NoId, NoStr)
               /\ hs'[h].pc # "failed"
               /\ panicked' = FALSE]_vars

C19_Witness ==
    /\ BLOCK_NEXT_INVOCATION
    /\ ~panicked
    /\ \E h \in Handlers :
        /\ hs[h].resp = HttpResponse("error", 500, NoId, NoStr)
        /\ hs[h].out.receipt_handle # NoId

\* C20: a request that is no POST and no GET of /invocation/next terminates the
\* emulator process; no handler runs for it and the guard is not changed.
C20_BadRequestTerminates ==
    [][\A h \in Handlers :
        BadRequest(h)
        => /\ panicked' = TRUE
           /\ hs'[h].resp = NoResponse
           /\ hs'[h].pc = "failed"
           /\ BLOCK_NEXT_INVOCATION' = BLOCK_NEXT_INVOCATION
           /\ reqQ' = reqQ /\ respQ' = respQ
           /\ lastTerminal' = lastTerminal /\ lastGuardEvent' = lastGuardEvent]_vars

\* handler h has a GET /invocation/next waiting: parked by the guard, or in the
\* long poll of get_input
Waiting(h) == hs[h].pc \in {"parked", "get_input"}

\* handler g is the next process to connect
NextToConnect(g) ==
    /\ hs[g].pc = "off"
    /\ \A k \in Handlers : k < g => hs[k].pc # "off"
    /\ \A k \in Handlers : (1 < k /\ k < g) => hs[k].pc \in {"stopped", "failed", "parked"}

\* C21: while a GET /invocation/next is parked by the guard or waits in the long
\* poll, the emulator accepts a new connection and serves the POST /response and
\* POST /error of another handler: each of their steps can be taken, and taking the
\* last one answers the request and leaves the waiting request where it is.
C21_ResponsiveWhileParked ==
    /\ [](\A h, g \in Handlers :
            (h # g /\ Waiting(h) /\ ~panicked)
            => /\ NextToConnect(g) => ENABLED StartHandler(g)
               /\ hs[g].pc = "invoked" => (ENABLED PostResponse(g)) /\ (ENABLED PostError(g))
               /\ hs[g].pc = "send_output" => ENABLED send_output_send(g)
               /\ hs[g].pc = "send_output_delete" => ENABLED send_output_delete(g))
    /\ [][\A h, g \in Handlers :
            (h # g /\ Waiting(h))
            => /\ PostError(g) => hs'[g].resp.status = 500 /\ hs'[h] = hs[h]
               /\ (send_output_delete(g) /\ DeleteRequestOk(reqQ, hs[g].out.receipt_handle))
                    => Answered200(g)' /\ hs'[h] = hs[h]]_vars

C21_Witness ==
    /\ ~panicked
    /\ hs[1].pc = "parked"
    /\ \E g \in Handlers :
        g # 1 /\ hs[g].pc = "send_output_delete" /\ ENABLED send_output_delete(g)

\* C22: payload source at startup. A payload file that is read makes the source
\* Local, and the queues are not consulted; a payload file that cannot be read
\* aborts; with no argument the source is Remote when the environment or the default
\* queues give a request queue, and the emulator aborts when they do not.
C22_PayloadSource ==
    LET have_req == startup.env.PROXY_LAMBDA_REQ_QUEUE_URL # None
                    \/ startup.default_queues.req # None
    IN
    startup.pc \in {"done", "panic"} =>
        CASE startup.payload_file = "readable" ->
                /\ startup.pc = "done" /\ sources = "Local"
                /\ ~startup.listed /\ startup.request_queue_url = None
          [] startup.payload_file = "unreadable" -> startup.pc = "panic" /\ sources = None
          [] startup.payload_file = None ->
                IF have_req
                THEN startup.pc = "done" /\ sources \in {"Remote", "RemoteNoResponseQueue"}
                     /\ startup.request_queue_url # None
                ELSE startup.pc = "panic" /\ sources = None
          [] OTHER -> TRUE

C22_Witness ==
    /\ startup.pc = "panic"
    /\ startup.payload_file = "unreadable"
    /\ startup.env.PROXY_LAMBDA_REQ_QUEUE_URL # None

\* C23: the queue URLs of the emulator. A set PROXY_LAMBDA_REQ_QUEUE_URL
\* (PROXY_LAMBDA_RESP_QUEUE_URL) is the request (response) queue URL, before the
\* default queue; the default queue is the URL only when the variable is absent;
\* the request queue is required, the response queue may be absent.
C23_EnvBeforeDefault ==
    (startup.pc = "done" /\ sources # "Local") =>
        /\ startup.request_queue_url =
             OrElse(startup.env.PROXY_LAMBDA_REQ_QUEUE_URL, startup.default_queues.req)
        /\ startup.request_queue_url # None
        /\ startup.response_queue_url =
             OrElse(startup.env.PROXY_LAMBDA_RESP_QUEUE_URL, startup.default_queues.resp)

\* C24: the configuration is resolved at most once in an emulator process:
\* Config::from_env runs at most one time however many calls of next_invocation,
\* get_input and send_output there are.
C24_ResolvedOnce ==
    sources # "Local" => from_env_runs <= 1

\* C25: the proxy lambda. When the URL of a queue has to be derived (its variable
\* is absent) and the ARN does not split into exactly seven parts, the invocation
\* fails with an error; for the request queue no message has been sent.
C25_ArnOfSevenParts ==
    \A p \in Proxies :
        (proxy[p].pc # "idle" /\ proxy[p].arn # 7) =>
            /\ ~proxy[p].PROXY_LAMBDA_REQ_QUEUE_URL =>
                    /\ proxy[p].pc = "done" /\ proxy[p].result = Err("Context error")
                    /\ reqQ[p].st = "none"
            /\ ~RespQueueUrlFromEnv(p) => proxy[p].pc = "done" /\ ~proxy[p].result.ok

C25_Witness ==
    \E p \in Proxies :
        /\ proxy[p].arn = 8 /\ proxy[p].PROXY_LAMBDA_REQ_QUEUE_URL /\ ~RespQueueUrlFromEnv(p)
        /\ proxy[p].pc = "done" /\ proxy[p].result = Err("Context error")
        /\ reqQ[p].st = "visible"

\* C26: the proxy lambda. When the SendMessage of the request fails, the invocation
\* returns an error and makes no purge, no ReceiveMessage and no DeleteMessage on
\* the response queue.
C26_SendFailure ==
    /\ [](\A p \in Proxies :
            (proxy[p].pc # "idle" /\ reqQ[p].st = "none") =>
                /\ proxy[p].pc = "done" /\ ~proxy[p].result.ok
                /\ ~ENABLED ProxyPurgeReceive(p) /\ ~ENABLED ProxyPurgeDelete(p)
                /\ ~ENABLED ProxyPollReceive(p) /\ ~ENABLED ProxyPollDelete(p))
    /\ [][\A p \in Proxies :
            (my_handler_send(p) /\ reqQ'[p].st = "none") => respQ' = respQ]_vars

C26_Witness ==
    \E p \in Proxies :
        /\ proxy[p].result = Err("Failed to send message")
        /\ proxy[p].pc = "done"
        /\ StaleResponse \in respQ

\* C27: in Remote mode the handling of a POST /response, from the request to its
\* answer, leaves the rerun guard as it was.
C27_ResponseKeepsGuard ==
    [][\A h \in Handlers :
        (sources # "Local" /\ (PostResponse(h) \/ send_output_send(h) \/ send_output_delete(h)))
        => BLOCK_NEXT_INVOCATION' = BLOCK_NEXT_INVOCATION]_vars

C27_Witness ==
    /\ sources = "Remote"
    /\ BLOCK_NEXT_INVOCATION
    /\ lastTerminal = "response"
    /\ \E h \in Handlers : Answered200(h)

\* a handler is inside get_input
InGetInput(h) == hs[h].pc \in {"get_input", "get_input_sleep"}

\* C28: get_input returns only with a request message it received. A ReceiveMessage
\* that failed is followed by a sleep and another ReceiveMessage, never by an error
\* or a panic; an empty answer is followed by another ReceiveMessage; and with a
\* message in the queue and receives that succeed in the end, get_input returns it.
C28_GetInputReturns ==
    /\ [][\A h \in Handlers :
            /\ get_input_error(h) => hs'[h].pc = "get_input_sleep" /\ panicked' = panicked
            /\ (hs[h].pc = "get_input_sleep" /\ hs'[h] # hs[h]) =>
                    hs'[h].pc = "get_input" /\ panicked' = panicked
            /\ (InGetInput(h) /\ ~InGetInput(h)') =>
                    /\ hs'[h].pc = "invoked"
                    /\ \E p \in Proxies :
                        /\ reqQ[p].st = "visible" /\ reqQ'[p].st = "hidden"
                        /\ hs'[h].resp = RemoteNextResponse(SqsMessage(reqQ', p))]_vars
    /\ \A h \in Handlers :
        (InGetInput(h) /\ \E p \in Proxies : reqQ[p].st = "visible") ~> (hs[h].pc = "invoked")

C28_Witness ==
    \E h \in Handlers :
        /\ hs[h].pc = "get_input_sleep"
        /\ \E p \in Proxies : reqQ[p].st = "visible"

\* the request message p is in the request queue
InRequestQueue(q, p) == q[p].st \in {"visible", "hidden"}

\* C29: a message received by get_input that lacks its body or its receipt handle,
\* or whose body is not the JSON of a RequestPayload, terminates the emulator
\* process; the message is not given to the handler and is not deleted.
C29_InvalidMessageTerminates ==
    [][\A h \in Handlers :
        get_input_invalid(h)
        => /\ panicked' = TRUE
           /\ hs'[h].resp = NoResponse /\ hs'[h].pc = "failed"
           /\ \A p \in Proxies : InRequestQueue(reqQ, p) => InRequestQueue(reqQ', p)]_vars

\* C30: a POST /response whose body is not UTF-8 terminates the emulator; nothing
\* is sent to the response queue and the request message is not deleted.
C30_NonUtf8Terminates ==
    [][\A h \in Handlers :
        (sources # "Local" /\ PostResponse(h) /\ hs'[h].pc = "failed")
        => /\ panicked' = TRUE
           /\ respQ' = respQ
           /\ reqQ' = reqQ]_vars

\* C31: in Local mode every GET /invocation/next that is not parked is answered 200
\* with the contents of the payload file, the request id local-request-id, the ARN
\* from-local-payload and the placeholder trace id, and no ReceiveMessage is made
\* on any queue.
C31_LocalNext ==
    /\ [](sources = "Local" =>
            /\ \A h \in Handlers : ~InGetInput(h)
            /\ Deliveries(reqQ) = 0 /\ \A m \in respQ : m.st = "visible")
    /\ [][\A h \in Handlers :
            (sources = "Local" /\ GetNext(h) /\ ~BLOCK_NEXT_INVOCATION) =>
                /\ hs'[h].pc = "invoked"
                /\ hs'[h].resp.status = 200
                /\ hs'[h].resp.body = PayloadFile
                /\ hs'[h].resp.request_id.id = "local-request-id"
                /\ hs'[h].resp.invoked_function_arn = "from-local-payload"
                /\ hs'[h].resp.trace_id = PlaceholderTraceId
                /\ reqQ' = reqQ /\ respQ' = respQ]_vars

C31_Witness ==
    /\ sources = "Local"
    /\ lastGuardEvent = "park"
    /\ \E h \in Handlers : hs[h].pc = "invoked" /\ hs[h].resp.invoked_function_arn = "from-local-payload"

\* the proxy lambda invocation is inside purge_response_queue
InPurge(p) == proxy[p].pc \in {"purge", "purge_delete"}

\* C32: purge_response_queue returns success only after a ReceiveMessage on the
\* response queue returned no message; before that it made one DeleteMessage for
\* every message it had received; a receive or a delete that fails makes it return
\* an error.
C32_Purge ==
    /\ [](\A p \in Proxies :
            /\ proxy[p].purged.ok => proxy[p].batch = {}
            /\ InPurge(p) => proxy[p].purged = NotReturned)
    /\ [][\A p \in Proxies :
            /\ (proxy[p].pc = "purge" /\ proxy'[p].pc = "purge_delete") =>
                    /\ proxy'[p].batch # {}
                    /\ proxy'[p].batch = {m.id : m \in {n \in respQ' : n.st = "hidden"}}
                                           \ {m.id : m \in {n \in respQ : n.st = "hidden"}}
            /\ (proxy[p].pc = "purge_delete" /\ proxy'[p].pc = "purge") =>
                    /\ \A m \in respQ' : m.id \notin proxy[p].batch
                    /\ proxy'[p].batch = {}
            /\ (InPurge(p) /\ ~InPurge(p)') =>
                    \/ /\ proxy'[p].purged = Ok(NoStr)
                       /\ proxy[p].pc = "purge" /\ proxy'[p].pc = "poll"
                       /\ respQ' = respQ
                    \/ /\ proxy'[p].purged \in {Err("Error receiving messages"),
                                                 Err("Error deleting messages")}
                       /\ proxy'[p].pc = "done"]_vars

C32_Witness ==
    \E p \in Proxies :
        /\ proxy[p].purged = Ok(NoStr)
        /\ StaleResponse \notin respQ
        /\ \A m \in respQ : m.id # StaleResponse.id

\* C33: after a purge that succeeded the proxy lambda polls the response queue for
\* as long as the polls return no message: an answer without a message neither
\* ends the invocation nor gives a result; a poll that fails ends the invocation
\* with an error.
C33_Polling ==
    /\ [](\A p \in Proxies :
            proxy[p].pc = "poll" =>
                /\ proxy[p].purged = Ok(NoStr) /\ proxy[p].result = NoInvocation.result
                /\ ENABLED ProxyPollFailed(p)
                /\ Visible(respQ) = {} => ~ENABLED ProxyPollReceive(p))
    /\ [][\A p \in Proxies :
            /\ (proxy[p].pc = "poll" /\ proxy'[p].pc # "poll") =>
                    \/ /\ \E m \in Visible(respQ) : [m EXCEPT !.st = "hidden"] \in respQ'
                       /\ proxy'[p].handle # NoId
                    \/ /\ proxy'[p].pc = "done"
                       /\ proxy'[p].result = Err("Failed to receive messages")
                       /\ respQ' = respQ
            /\ ProxyPollFailed(p) => proxy'[p].pc = "done" /\ ~proxy'[p].result.ok]_vars

C33_Witness ==
    \E p \in Proxies :
        /\ proxy[p].pc = "done"
        /\ proxy[p].purged = Ok(NoStr)
        /\ proxy[p].result = Err("Failed to receive messages")
        /\ reqQ[p].st = "hidden"

\* C34: in send_output a SendMessage to the response queue that fails terminates
\* the emulator before the DeleteMessage is made, so the request message is not
\* deleted; a DeleteMessage that fails terminates the emulator too.
C34_SendOutputFailures ==
    [][\A h \in Handlers :
        /\ send_output_send_failed(h) =>
                /\ panicked' = TRUE
                /\ CallsOf(hs'[h].out, "DeleteMessage") = {}
                /\ reqQ' = reqQ
        /\ send_output_delete_failed(h) => panicked' = TRUE]_vars

\* C35: in Remote mode the request message of a handler error can be delivered to a
\* handler again without a restart of the emulator: when a GET /invocation/next
\* has been parked, which cleared the guard, and the message is visible again, a
\* later GET /invocation/next is not parked and receives the body of the same
\* message in a new delivery.
C35_Redelivery ==
    /\ [](\A h \in Handlers :
            (sources = "Remote" /\ ~panicked /\ hs[h].pc = "get_input"
                /\ \E p \in Proxies : reqQ[p].st = "visible" /\ reqQ[p].rc >= 1)
            => ENABLED get_input(h))
    /\ [][\A h \in Handlers :
            sources = "Remote" =>
                /\ (GetNext(h) /\ lastTerminal = "error" /\ lastGuardEvent = "park")
                        => hs'[h].pc = "get_input"
                /\ \A p \in Proxies :
                        (get_input(h) /\ reqQ[p].rc >= 1
                            /\ reqQ[p].st = "visible" /\ reqQ'[p].st = "hidden") =>
                            /\ hs'[h].pc = "invoked" /\ hs'[h].resp.status = 200
                            /\ hs'[h].resp.body = proxy[p].event
                            /\ hs'[h].resp.request_id = Receipt(p, reqQ[p].rc + 1)
                            /\ hs'[h].resp.request_id \notin inflight]_vars

C35_Witness ==
    /\ sources = "Remote"
    /\ ~panicked
    /\ lastTerminal = "error"
    /\ lastGuardEvent = "park"
    /\ \E h \in Handlers, p \in Proxies :
        /\ hs[h].pc = "invoked"
        /\ hs[h].resp.request_id = Receipt(p, 2)
        /\ hs[h].resp.body = proxy[p].event

\* C36: in send_output a response that is 262144 bytes or longer when encoded, and
\* so is not sent, still has its request message deleted from the request queue
\* with the receipt handle given: the request is never delivered again although
\* its response is lost.
C36_TooLongStillDeletes ==
    [][/\ \A h \in Handlers :
            (sources = "Remote" /\ send_output_delete(h) /\ ~FitsSqs(hs[h].out.response)) =>
                /\ CallsOf(hs'[h].out, "SendMessage") = {}
                /\ Cardinality(CallsOf(hs'[h].out, "DeleteMessage")) = 1
                /\ reqQ'[hs[h].out.receipt_handle.msg].st = "deleted"
                /\ \A m \in respQ' : m.id # hs[h].out.receipt_handle
                /\ Answered200(h)'
       /\ \A p \in Proxies :
            reqQ[p].st = "deleted" => reqQ'[p] = reqQ[p]]_vars

C36_Witness ==
    /\ sources = "Remote"
    /\ \E h \in Handlers :
        /\ Answered200(h)
        /\ CallsOf(hs[h].out, "SendMessage") = {}
        /\ reqQ[hs[h].out.receipt_handle.msg].st = "deleted"

\* C37: each setting of the guard parks at most one GET /invocation/next, also when
\* two requests run concurrently: block_if_rerun reads and clears the guard as one
\* step, so no request parks on a setting that has parked a request already, and
\* no request that read the guard set finds it cleared by another.
C37_AtomicPark ==
    /\ [](\A h \in Handlers : hs[h].pc = "next_unblock" => BLOCK_NEXT_INVOCATION)
    /\ [][\A h \in Handlers : block_if_rerun_unblock(h) => lastGuardEvent # "park"]_vars

\* the response the emulator wrote for a delivery of request message p
ResponseTo(m, p) == m.id.id = "receipt" /\ m.id.msg = p

\* C38: the response the emulator writes for the request an invocation of the proxy
\* lambda enqueued is returned by that invocation: its purge, which runs after the
\* request was enqueued, never receives and never deletes that response, also when
\* the emulator answers before the purge is over.
C38_PurgeKeepsFreshResponse ==
    [][\A p \in Proxies :
        (ProxyPurgeReceive(p) \/ ProxyPurgeDelete(p)) =>
            \A m \in respQ : ResponseTo(m, p) => m \in respQ']_vars

\* C39: two invocations of the proxy lambda that run at the same time on the same
\* queues: each takes from the response queue only the response to the request it
\* enqueued, and the purge of one never receives or deletes the response to the
\* request of the other.
C39_ConcurrentProxies ==
    [][\A p, q \in Proxies :
        (p # q /\ proxy[q].pc \in {"purge", "purge_delete", "poll", "poll_delete"}) =>
            /\ (ProxyPurgeReceive(p) \/ ProxyPurgeDelete(p)) =>
                    \A m \in respQ : ResponseTo(m, q) => m \in respQ'
            /\ ProxyPollReceive(p) => proxy'[p].handle.msg # q]_vars

\* C40: the proxy lambda deletes a response message it received only after the body
\* was decoded: when the decoding fails the invocation returns an error and the
\* message stays in the queue; when the decoding succeeds and the decoded body is
\* not JSON, the message is deleted already when the error is returned.
C40_DeleteAfterDecode ==
    /\ [](\A p \in Proxies :
            (proxy[p].pc = "done" /\ proxy[p].handle # NoId) =>
                IF proxy[p].result \in {Err("Failed to decode from maybe base58"),
                                        Err("Failed to decompress the payload")}
                THEN \E m \in respQ : /\ m.id = proxy[p].handle /\ m.body = proxy[p].body
                                       /\ ~decode_maybe_binary(m.body).ok
                ELSE /\ \A m \in respQ : m.id # proxy[p].handle
                     /\ proxy[p].result = FromStr(proxy[p].body))
    /\ [][\A p \in Proxies :
            /\ ProxyPollReceive(p) =>
                    /\ {m.id : m \in respQ'} = {m.id : m \in respQ}
                    /\ \E m \in Visible(respQ) :
                        /\ proxy'[p].handle = m.id
                        /\ proxy'[p].pc = IF decode_maybe_binary(m.body).ok THEN "poll_delete" ELSE "done"
            /\ (proxy[p].pc # "done" /\ proxy'[p].pc = "done" /\ proxy'[p].result = Err("invalid JSON"))
                    => \A m \in respQ' : m.id # proxy[p].handle]_vars

C40_Witness ==
    \E p \in Proxies :
        /\ proxy[p].pc = "done"
        /\ proxy[p].result = Err("invalid JSON")
        /\ proxy[p].handle # NoId
        /\ respQ = {}

====
